---- MODULE Spec2Model ----
(***************************************************************************)
(* Reconciliation of one Elastigroup task                                  *)
(* (upup/pkg/fi/cloudup/spotinsttasks/elastigroup.go).                     *)
(*                                                                         *)
(* A task, an actual state and a Delta are functions from the names of the *)
(* populated fields to their values: a nil pointer, slice or map of the Go *)
(* struct is a name missing from the DOMAIN.  An aws.Group (a request, or  *)
(* a group stored by the provider) is a function from field paths to       *)
(* values, with "structs" recording the nested structures allocated.       *)
(***************************************************************************)
EXTENDS Integers, Sequences, FiniteSets, TLC

VARIABLES
    desired,    \* the declared specification, the same in every pass
    e,          \* the task built from it for the current pass
    a,          \* actual state returned by Find: None or Some(task)
    changes,    \* the Delta, consumed by update
    pc,         \* position of the pass
    pass,       \* number of the current pass
    groups,     \* provider state: the sequence of groups List returns
    cloud,      \* resolver results of the AWS cloud (load balancers)
    group,      \* the aws.Group request built by create / update
    attempt,    \* create's attempt counter
    sent,       \* the last request handed to the provider, with its kind
    log,        \* what happened in the current pass (calls, errors, warnings)
    tasks,      \* the task set of a run, in declaration order
    ordering,   \* the execution order built from it
    stage,      \* position of the run: building the order, running it, ended
    status      \* how far the executor got with each task

reconcile == <<desired, e, a, changes, pc, pass, groups, cloud, group, attempt, sent, log>>
graph == <<tasks, ordering, stage, status>>
vars == <<reconcile, graph>>

----------------------------------------------------------------------------
(* Optional values and partial records *)

None == <<>>
Some(x) == <<x>>

Has(t, f) == f \in DOMAIN t
Drop(t, fs) == [f \in DOMAIN t \ fs |-> t[f]]
Put(t, f, v) == (f :> v) @@ t
Opt(t, f) == IF Has(t, f) THEN Some(t[f]) ELSE None
PutIf(cond, t, f, v) == IF cond THEN Put(t, f, v) ELSE t
PutOpt(t, f, o) == IF o = None THEN t ELSE Put(t, f, o[1])
Clear == <<>>

Range(s) == {s[i] : i \in DOMAIN s}

\* fi.StringValue / fi.IntValue / fi.BoolValue: the zero value for nil
StringValue(o) == IF o = None THEN "" ELSE o[1]
IntValue(o) == IF o = None THEN 0 ELSE o[1]
BoolValue(o) == IF o = None THEN FALSE ELSE o[1]

----------------------------------------------------------------------------
(* Bounds of the model *)

MaxPasses == 2          \* reconciliation passes over the same specification
MaxCreateCalls == 11    \* cap on provider Create calls of one create invocation

(* Program constants *)

maxAttempts == 10

----------------------------------------------------------------------------
(* Orientation *)

OrientationBalanced == "balanced"
OrientationCost == "costOriented"
OrientationAvailability == "availabilityOriented"
OrientationEqualZoneDistribution == "equalAzDistribution"

normalizeOrientation(orientation) ==
    IF orientation = None THEN OrientationBalanced
    ELSE CASE orientation[1] = "cost" -> OrientationCost
           [] orientation[1] = "availability" -> OrientationAvailability
           [] orientation[1] = "equal-distribution" -> OrientationEqualZoneDistribution
           [] OTHER -> OrientationBalanced

applyDefaults(t) ==
    LET t1 == IF ~Has(t, "FallbackToOnDemand") THEN Put(t, "FallbackToOnDemand", TRUE) ELSE t
        t2 == IF ~Has(t1, "UtilizeReservedInstances")
              THEN Put(t1, "UtilizeReservedInstances", TRUE) ELSE t1
        t3 == IF ~Has(t2, "Product") \/ t2["Product"] = ""
              THEN Put(t2, "Product", "Linux/UNIX") ELSE t2
        t4 == IF ~Has(t3, "Orientation") \/ t3["Orientation"] = ""
              THEN Put(t3, "Orientation", "balanced") ELSE t3
        t5 == IF ~Has(t4, "Monitoring") THEN Put(t4, "Monitoring", FALSE) ELSE t4
    IN  IF ~Has(t5, "HealthCheckType") THEN Put(t5, "HealthCheckType", "K8S_NODE") ELSE t5

----------------------------------------------------------------------------
(* The cloud's resolvers *)

\* cloud.ResolveImage: the images the cloud knows, by name or by id
Images ==
    [ubuntu |-> [ImageId |-> "ami-1", RootDeviceName |-> "/dev/sda1"]] @@
    ("ami-1" :> [ImageId |-> "ami-1", RootDeviceName |-> "/dev/sda1"]) @@
    ("ami-2" :> [ImageId |-> "ami-2", RootDeviceName |-> "/dev/xvda"])

\* resolveImage: None stands for the error return
resolveImage(name) == IF name \in DOMAIN Images THEN Some(Images[name]) ELSE None

\* awsup.GetMachineTypeInfo(...).EphemeralDevices()
MachineTypes ==
    ("m5.large" :> <<>>) @@
    ("m3.large" :> <<[DeviceName |-> "/dev/sdc", VirtualName |-> "ephemeral0"]>>)

\* cloud.FindELBByNameTag / cloud.FindELBV2ByNameTag: the load balancer carrying the
\* name tag, None when there is none; its LoadBalancerName is not the tag
ELBNames == [api |-> "api-elb"]
NLBNames == [api |-> "api-nlb"]
FindELBByNameTag(c, name) ==
    IF c.elb /\ name \in DOMAIN ELBNames
    THEN Some([LoadBalancerName |-> ELBNames[name]]) ELSE None
FindELBV2ByNameTag(c, name) ==
    IF c.nlb /\ name \in DOMAIN NLBNames
    THEN Some([LoadBalancerName |-> NLBNames[name]]) ELSE None

\* base64.StdEncoding
EncodeToString(s) == <<"base64", s>>
DecodeString(s) == s[2]

\* strings.ToLower on volume types
ToLower(s) ==
    CASE s = "GP2" -> "gp2" [] s = "GP3" -> "gp3" [] s = "IO1" -> "io1" [] OTHER -> s

----------------------------------------------------------------------------
(* Block devices *)

\* buildEphemeralDevices: None stands for the error return
buildEphemeralDevices(machineType) ==
    IF StringValue(machineType) \in DOMAIN MachineTypes
    THEN Some(MachineTypes[StringValue(machineType)])
    ELSE None

\* buildRootDevice(cloud, volumeOpts, imageID): outcome "error" when the image does
\* not resolve, "panic" when volumeOpts is nil, else the block device mapping
buildRootDevice(volumeOpts, imageID) ==
    IF resolveImage(StringValue(imageID)) = None THEN [outcome |-> "error", bdm |-> Clear]
    ELSE IF volumeOpts = None THEN [outcome |-> "panic", bdm |-> Clear]
    ELSE [outcome |-> "ok",
          bdm |-> PutIf(Has(volumeOpts[1], "Throughput")
                            /\ StringValue(Opt(volumeOpts[1], "Type")) = "gp3",
                    PutIf(Has(volumeOpts[1], "IOPS")
                            /\ StringValue(Opt(volumeOpts[1], "Type")) # "gp2",
                      PutOpt(PutOpt([DeviceName |->
                                        resolveImage(StringValue(imageID))[1].RootDeviceName,
                                     EbsDeleteOnTermination |-> TRUE],
                                    "EbsVolumeSize", Opt(volumeOpts[1], "Size")),
                             "EbsVolumeType", Opt(volumeOpts[1], "Type")),
                      "EbsVolumeIops", volumeOpts[1]["IOPS"]),
                    "EbsVolumeThroughput", volumeOpts[1]["Throughput"])]

\* convertBlockDeviceMapping, the EBS part: VolumeSize is always set, IOPS unless the
\* type is gp2, Throughput only when it is gp3
convertEBS(in) ==
    PutIf(Has(in, "EbsVolumeThroughput") /\ StringValue(Opt(in, "EbsVolumeType")) = "gp3",
      PutIf(Has(in, "EbsVolumeIops") /\ StringValue(Opt(in, "EbsVolumeType")) # "gp2",
        PutOpt(PutOpt([VolumeSize |-> IntValue(Opt(in, "EbsVolumeSize"))],
                      "VolumeType", Opt(in, "EbsVolumeType")),
               "DeleteOnTermination", Opt(in, "EbsDeleteOnTermination")),
        "IOPS", in["EbsVolumeIops"]),
      "Throughput", in["EbsVolumeThroughput"])

convertBlockDeviceMapping(in) ==
    PutIf(Has(in, "EbsDeleteOnTermination") \/ Has(in, "EbsVolumeSize")
            \/ Has(in, "EbsVolumeType"),
      PutOpt(PutOpt(Clear, "DeviceName", Opt(in, "DeviceName")),
             "VirtualName", Opt(in, "VirtualName")),
      "EBS", convertEBS(in))

\* the mappings create and update send: the root device, then the ephemeral devices
BlockDeviceMappings(rootDevice, ephemeralDevices) ==
    <<convertBlockDeviceMapping(rootDevice)>> \o
    [i \in DOMAIN ephemeralDevices |-> convertBlockDeviceMapping(ephemeralDevices[i])]

----------------------------------------------------------------------------
(* aws.Group requests *)

\* the function holding the pairs <<path, Some(value)>> of ps; a None value is a field left nil
FromSeq(ps) ==
    [p \in {ps[i][1] : i \in {j \in DOMAIN ps : ps[j][2] # None}} |->
        ps[CHOOSE i \in DOMAIN ps : ps[i][1] = p][2][1]]

\* the orders in which a Go map with these keys can be iterated
Orders(m) == {s \in [1..Cardinality(DOMAIN m) -> DOMAIN m] : Range(s) = DOMAIN m}
MapOf(t, f) == IF Has(t, f) THEN t[f] ELSE Clear

\* buildTags / buildAutoScaleLabels: one entry per key, in the map's iteration order
buildTags(tags, order) == [i \in DOMAIN order |-> [Key |-> order[i], Value |-> tags[order[i]]]]
buildAutoScaleLabels(labelsMap, order) ==
    [i \in DOMAIN order |-> [Key |-> order[i], Value |-> labelsMap[order[i]]]]

NetworkInterface(associatePublicIP) ==
    [Description |-> "eth0", DeviceIndex |-> 0, DeleteOnTermination |-> TRUE,
     AssociatePublicIPAddress |-> associatePublicIP]

AutoScaleHeadroom(headroom) ==
    FromSeq(<< <<"CPUPerUnit", Opt(headroom, "CPUPerUnit")>>,
               <<"GPUPerUnit", Opt(headroom, "GPUPerUnit")>>,
               <<"MemoryPerUnit", Opt(headroom, "MemPerUnit")>>,
               <<"NumOfUnits", Opt(headroom, "NumOfUnits")>> >>)

AutoScaleDown(down) ==
    FromSeq(<< <<"MaxScaleDownPercentage", Opt(down, "MaxPercentage")>>,
               <<"EvaluationPeriods", Opt(down, "EvaluationPeriods")>> >>)

EmptyGroup == [structs |-> {}, f |-> Clear, nulls |-> {}]
Built(outcome, g) == [outcome |-> outcome, group |-> g]

\* create, block device mappings and image: what the two blocks place in the launch
\* specification, or the error / nil dereference that ends create there
createDerived(t, root, eph, image) ==
    IF root.outcome # "ok" THEN [outcome |-> root.outcome, mappings |-> <<>>, image |-> None]
    ELSE IF eph = None \/ image = None
    THEN [outcome |-> "error", mappings |-> <<>>, image |-> None]
    ELSE [outcome |-> "ok", mappings |-> BlockDeviceMappings(root.bdm, eph[1]),
          image |-> Some(image[1].ImageId)]

createBlockDevicesAndImage(t) ==
    createDerived(t, buildRootDevice(Opt(t, "RootVolumeOpts"), Opt(t, "ImageID")),
                  buildEphemeralDevices(Opt(t, "OnDemandInstanceType")),
                  resolveImage(StringValue(Opt(t, "ImageID"))))

\* create, load balancer: the LoadBalancersConfig sent, as Some(config), None when the
\* name resolves to nothing; "error" when it resolves to both kinds
createLoadBalancer(c, t) ==
    LET elb == FindELBByNameTag(c, t["LoadBalancer"])
        nlb == FindELBV2ByNameTag(c, t["LoadBalancer"])
    IN  IF elb # None /\ nlb # None THEN [outcome |-> "error", cfg |-> None]
        ELSE IF nlb # None
        THEN [outcome |-> "ok",
              cfg |-> Some(<<[Name |-> nlb[1].LoadBalancerName, Type |-> "NETWORK"]>>)]
        ELSE IF elb # None
        THEN [outcome |-> "ok",
              cfg |-> Some(<<[Name |-> elb[1].LoadBalancerName, Type |-> "CLASSIC"]>>)]
        ELSE [outcome |-> "ok", cfg |-> None]

\* create, auto scaler: the Integration fields
createIntegration(t, labelOrder) ==
    IF ~Has(t, "AutoScalerOpts") THEN <<>>
    ELSE
      LET opts == t["AutoScalerOpts"] IN
      << <<"Integration.Kubernetes.IntegrationMode", Some("pod")>>,
         <<"Integration.Kubernetes.ClusterIdentifier", Opt(opts, "ClusterID")>> >> \o
      IF ~Has(opts, "Enabled") THEN <<>>
      ELSE
        << <<"Integration.Kubernetes.AutoScale.IsEnabled", Some(opts["Enabled"])>>,
           <<"Integration.Kubernetes.AutoScale.IsAutoConfig", Some(~Has(opts, "Headroom"))>>,
           <<"Integration.Kubernetes.AutoScale.Cooldown", Opt(opts, "Cooldown")>>,
           <<"Integration.Kubernetes.AutoScale.Headroom",
             IF Has(opts, "Headroom") THEN Some(AutoScaleHeadroom(opts["Headroom"])) ELSE None>>,
           <<"Integration.Kubernetes.AutoScale.Down",
             IF Has(opts, "Down") THEN Some(AutoScaleDown(opts["Down"])) ELSE None>>,
           <<"Integration.Kubernetes.AutoScale.Labels",
             IF Has(opts, "Labels")
             THEN Some(buildAutoScaleLabels(opts["Labels"], labelOrder)) ELSE None>> >>

\* create, up to the retry loop: the group to be created from the task t (after
\* applyDefaults), or the error / nil dereference that ends create before any call
createGroup(c, t, tagOrder, labelOrder) ==
    IF ~Has(t, "MinSize") \/ ~Has(t, "MaxSize") THEN Built("panic", EmptyGroup)
    ELSE IF ~Has(t, "SSHKey") THEN Built("panic", EmptyGroup)
    ELSE
    LET root == buildRootDevice(Opt(t, "RootVolumeOpts"), Opt(t, "ImageID"))
        eph == buildEphemeralDevices(Opt(t, "OnDemandInstanceType"))
        image == resolveImage(StringValue(Opt(t, "ImageID")))
        lb == IF Has(t, "LoadBalancer") THEN createLoadBalancer(c, t)
              ELSE [outcome |-> "ok", cfg |-> None]
    IN
    IF root.outcome # "ok" THEN Built(root.outcome, EmptyGroup)
    ELSE IF eph = None \/ image = None THEN Built("error", EmptyGroup)
    ELSE IF lb.outcome # "ok" THEN Built("error", EmptyGroup)
    ELSE
    Built("ok",
      [structs |-> {"Capacity", "Strategy", "Compute", "Compute.LaunchSpecification",
                    "Compute.InstanceTypes"}
                   \cup (IF Has(t, "AutoScalerOpts") THEN {"Integration"} ELSE {})
                   \cup (IF Has(t, "AutoScalerOpts") /\ Has(t["AutoScalerOpts"], "Enabled")
                         THEN {"Integration.Kubernetes.AutoScale"} ELSE {}),
       nulls |-> {},
       f |-> FromSeq(
        << <<"Name", Opt(t, "Name")>>,
           <<"Description", Opt(t, "Name")>>,
           <<"Region", Opt(t, "Region")>>,
           <<"Capacity.Target", Some(t["MinSize"])>>,
           <<"Capacity.Minimum", Some(t["MinSize"])>>,
           <<"Capacity.Maximum", Some(t["MaxSize"])>>,
           <<"Strategy.Risk", Opt(t, "SpotPercentage")>>,
           <<"Strategy.AvailabilityVsCost", Some(normalizeOrientation(Opt(t, "Orientation")))>>,
           <<"Strategy.FallbackToOnDemand", Opt(t, "FallbackToOnDemand")>>,
           <<"Strategy.UtilizeReservedInstances", Opt(t, "UtilizeReservedInstances")>>,
           <<"Strategy.DrainingTimeout", Opt(t, "DrainingTimeout")>>,
           <<"Compute.Product", Opt(t, "Product")>>,
           <<"Compute.InstanceTypes.OnDemand", Opt(t, "OnDemandInstanceType")>>,
           <<"Compute.InstanceTypes.Spot", Opt(t, "SpotInstanceTypes")>>,
           <<"Compute.SubnetIDs", Some(MapOf(t, "Subnets"))>>,
           <<"Compute.LaunchSpecification.Monitoring", Opt(t, "Monitoring")>>,
           <<"Compute.LaunchSpecification.KeyPair", Some(t["SSHKey"])>>,
           <<"Compute.LaunchSpecification.Tenancy", Opt(t, "Tenancy")>>,
           <<"Compute.LaunchSpecification.BlockDeviceMappings",
             Some(BlockDeviceMappings(root.bdm, eph[1]))>>,
           <<"Compute.LaunchSpecification.ImageID", Some(image[1].ImageId)>>,
           <<"Compute.LaunchSpecification.UserData",
             IF Has(t, "UserData") /\ t["UserData"] # ""
             THEN Some(EncodeToString(t["UserData"])) ELSE None>>,
           <<"Compute.LaunchSpecification.IAMInstanceProfile", Opt(t, "IAMInstanceProfile")>>,
           <<"Compute.LaunchSpecification.SecurityGroupIDs", Opt(t, "SecurityGroups")>>,
           <<"Compute.LaunchSpecification.NetworkInterfaces",
             IF Has(t, "AssociatePublicIP")
             THEN Some(<<NetworkInterface(t["AssociatePublicIP"])>>) ELSE None>>,
           <<"Compute.LaunchSpecification.LoadBalancersConfig", lb.cfg>>,
           <<"Compute.LaunchSpecification.Tags",
             IF Has(t, "Tags") THEN Some(buildTags(t["Tags"], tagOrder)) ELSE None>>,
           <<"Compute.LaunchSpecification.HealthCheckType", Opt(t, "HealthCheckType")>> >>
        \o createIntegration(t, labelOrder))])

----------------------------------------------------------------------------
(* Discovery *)

\* find: the first listed group with the name; "error" when List fails or none has it
find(listed, name) ==
    IF listed = None THEN [outcome |-> "error", out |-> None]
    ELSE LET hits == {i \in DOMAIN listed[1] : listed[1][i].f["Name"] = name} IN
         IF hits = {} THEN [outcome |-> "error", out |-> None]
         ELSE [outcome |-> "ok",
               out |-> Some(listed[1][CHOOSE i \in hits : \A j \in hits : i <= j])]

\* a CheckExisting that reports a group whenever List succeeded
CheckExistingListed(listed, name) == listed # None

\* CheckExisting: whether find returned a group without error
CheckExisting(listed, name) ==
    LET r == find(listed, name) IN r.outcome = "ok" /\ r.out # None

\* a comparison of the subnet ids element by element
subnetSlicesEqual(l, r) == l = r

\* utils.StringSlicesEqualIgnoreOrder on the subnet ids
subnetSlicesEqualIgnoreOrder(l, r) ==
    Len(l) = Len(r) /\ Range(l) = Range(r)

\* Find, root volume options: the EBS mappings without snapshot, in order
RECURSIVE findRootVolume(_, _, _)
findRootVolume(mappings, i, acc) ==
    IF i > Len(mappings) THEN acc
    ELSE LET b == mappings[i] IN
         IF ~Has(b, "EBS") \/ Has(b["EBS"], "SnapshotID")
         THEN findRootVolume(mappings, i + 1, acc)
         ELSE
           LET ebs == b["EBS"]
               r0 == IF acc = None THEN Clear ELSE acc[1]
               r1 == IF Has(ebs, "VolumeType") THEN Put(r0, "Type", ToLower(ebs["VolumeType"]))
                     ELSE r0
               r2 == PutOpt(r1, "Size", Opt(ebs, "VolumeSize"))
               r3 == PutOpt(r2, "IOPS", Opt(ebs, "IOPS"))
               r4 == PutOpt(r3, "Throughput", Opt(ebs, "Throughput"))
           IN  findRootVolume(mappings, i + 1, Some(r4))

findRootVolumeOpts(g) ==
    LET r == findRootVolume(MapOf(g, "Compute.LaunchSpecification.BlockDeviceMappings"), 1, None)
    IN  IF BoolValue(Opt(g, "Compute.LaunchSpecification.EBSOptimized"))
        THEN Some(Put(IF r = None THEN Clear ELSE r[1], "Optimization",
                      g["Compute.LaunchSpecification.EBSOptimized"]))
        ELSE r

\* Find, load balancer: "error" when the desired name resolves to both kinds
findLoadBalancer(c, t, g) ==
    LET cfg == MapOf(g, "Compute.LaunchSpecification.LoadBalancersConfig") IN
    IF Len(cfg) = 0 THEN [outcome |-> "ok", lb |-> None]
    ELSE
      LET name == cfg[1].Name IN
      IF Has(t, "LoadBalancer") /\ name # t["LoadBalancer"]
      THEN LET nlb == FindELBV2ByNameTag(c, t["LoadBalancer"])
               elb == FindELBByNameTag(c, t["LoadBalancer"])
           IN  IF elb # None /\ nlb # None THEN [outcome |-> "error", lb |-> None]
               ELSE IF (nlb # None /\ nlb[1].LoadBalancerName = name)
                       \/ (elb # None /\ elb[1].LoadBalancerName = name)
               THEN [outcome |-> "ok", lb |-> Some(t["LoadBalancer"])]
               ELSE [outcome |-> "ok", lb |-> Some(name)]
      ELSE [outcome |-> "ok", lb |-> Some(name)]

\* Find, image: the desired name stands for the live image id it resolves to
findImage(t, g) ==
    LET live == Opt(g, "Compute.LaunchSpecification.ImageID") IN
    IF Has(t, "ImageID") /\ live # None /\ live[1] # t["ImageID"]
    THEN LET image == resolveImage(t["ImageID"]) IN
         IF image = None THEN [outcome |-> "error", id |-> None]
         ELSE IF image[1].ImageId = live[1] THEN [outcome |-> "ok", id |-> Some(t["ImageID"])]
         ELSE [outcome |-> "ok", id |-> live]
    ELSE [outcome |-> "ok", id |-> live]

KeyValueMap(list) ==
    [k \in {list[i].Key : i \in DOMAIN list} |->
        list[CHOOSE i \in DOMAIN list :
                list[i].Key = k /\ \A j \in DOMAIN list : list[j].Key = k => j <= i].Value]

\* Find, headroom: only the positive values are taken over
findHeadroom(headroom) ==
    LET pos(f) == IF IntValue(Opt(headroom, f)) > 0 THEN Opt(headroom, f) ELSE None IN
    FromSeq(<< <<"CPUPerUnit", pos("CPUPerUnit")>>, <<"GPUPerUnit", pos("GPUPerUnit")>>,
               <<"MemPerUnit", pos("MemoryPerUnit")>>, <<"NumOfUnits", pos("NumOfUnits")>> >>)

findAutoScalerOpts(st) ==
    LET g == st.f IN
    IF "Integration" \notin st.structs THEN None
    ELSE Some(FromSeq(
      << <<"ClusterID", Opt(g, "Integration.Kubernetes.ClusterIdentifier")>> >> \o
      IF "Integration.Kubernetes.AutoScale" \notin st.structs THEN <<>>
      ELSE
      << <<"Enabled", Opt(g, "Integration.Kubernetes.AutoScale.IsEnabled")>>,
         <<"Cooldown", Opt(g, "Integration.Kubernetes.AutoScale.Cooldown")>>,
         <<"Headroom",
           IF Has(g, "Integration.Kubernetes.AutoScale.Headroom")
           THEN Some(findHeadroom(g["Integration.Kubernetes.AutoScale.Headroom"]))
           ELSE None>>,
         <<"Down",
           IF Has(g, "Integration.Kubernetes.AutoScale.Down")
           THEN Some(FromSeq(
                  << <<"MaxPercentage",
                       Opt(g["Integration.Kubernetes.AutoScale.Down"], "MaxScaleDownPercentage")>>,
                     <<"EvaluationPeriods",
                       Opt(g["Integration.Kubernetes.AutoScale.Down"], "EvaluationPeriods")>> >>))
           ELSE None>>,
         <<"Labels",
           IF Has(g, "Integration.Kubernetes.AutoScale.Labels")
           THEN Some(KeyValueMap(g["Integration.Kubernetes.AutoScale.Labels"]))
           ELSE None>> >>))

\* Find: the actual state read from the listed group with the task's name
Find(c, t, listed) ==
    LET found == find(listed, t["Name"]) IN
    IF found.outcome # "ok" THEN [outcome |-> "error", actual |-> None]
    ELSE
    LET st == found.out[1]
        g == st.f
        ids == MapOf(g, "Compute.SubnetIDs")
        image == findImage(t, g)
        lb == findLoadBalancer(c, t, g)
        tags == MapOf(g, "Compute.LaunchSpecification.Tags")
        sgs == MapOf(g, "Compute.LaunchSpecification.SecurityGroupIDs")
        ifaces == MapOf(g, "Compute.LaunchSpecification.NetworkInterfaces")
    IN
    IF image.outcome # "ok" \/ lb.outcome # "ok" THEN [outcome |-> "error", actual |-> None]
    ELSE
    [outcome |-> "ok",
     actual |-> Some(FromSeq(
      << <<"ID", Opt(g, "ID")>>,
         <<"Name", Opt(g, "Name")>>,
         <<"Region", Opt(g, "Region")>>,
         <<"MinSize", Some(IntValue(Opt(g, "Capacity.Minimum")))>>,
         <<"MaxSize", Some(IntValue(Opt(g, "Capacity.Maximum")))>>,
         <<"SpotPercentage", Opt(g, "Strategy.Risk")>>,
         <<"Orientation", Opt(g, "Strategy.AvailabilityVsCost")>>,
         <<"FallbackToOnDemand", Opt(g, "Strategy.FallbackToOnDemand")>>,
         <<"UtilizeReservedInstances", Opt(g, "Strategy.UtilizeReservedInstances")>>,
         <<"DrainingTimeout", Opt(g, "Strategy.DrainingTimeout")>>,
         <<"Product", Opt(g, "Compute.Product")>>,
         <<"OnDemandInstanceType", Opt(g, "Compute.InstanceTypes.OnDemand")>>,
         <<"SpotInstanceTypes", Opt(g, "Compute.InstanceTypes.Spot")>>,
         <<"Subnets",
           IF subnetSlicesEqualIgnoreOrder(ids, MapOf(t, "Subnets")) THEN Opt(t, "Subnets")
           ELSE IF Len(ids) = 0 THEN None ELSE Some(ids)>>,
         <<"ImageID", image.id>>,
         <<"Tags", IF Len(tags) > 0 THEN Some(KeyValueMap(tags)) ELSE None>>,
         <<"SecurityGroups", IF Len(sgs) > 0 THEN Some(sgs) ELSE None>>,
         <<"RootVolumeOpts", findRootVolumeOpts(g)>>,
         <<"UserData",
           Some(IF Has(g, "Compute.LaunchSpecification.UserData")
                THEN DecodeString(g["Compute.LaunchSpecification.UserData"]) ELSE "")>>,
         <<"AssociatePublicIP",
           Some(\E i \in DOMAIN ifaces : ifaces[i].AssociatePublicIPAddress)>>,
         <<"LoadBalancer", lb.lb>>,
         <<"IAMInstanceProfile", Opt(g, "Compute.LaunchSpecification.IAMInstanceProfile")>>,
         <<"SSHKey", Opt(g, "Compute.LaunchSpecification.KeyPair")>>,
         <<"Tenancy", Opt(g, "Compute.LaunchSpecification.Tenancy")>>,
         <<"Monitoring", Opt(g, "Compute.LaunchSpecification.Monitoring")>>,
         <<"HealthCheckType", Opt(g, "Compute.LaunchSpecification.HealthCheckType")>>,
         <<"AutoScalerOpts", findAutoScalerOpts(st)>>,
         <<"Lifecycle", Opt(t, "Lifecycle")>> >>))]

----------------------------------------------------------------------------
(* The Delta *)

\* the nested option groups, compared sub-field by sub-field
NestedGroups == {"RootVolumeOpts", "AutoScalerOpts", "Headroom", "Down"}

\* fi.BuildChanges: the populated fields of ev that differ from av
RECURSIVE Delta(_, _)
Delta(av, ev) ==
    LET differs(f) ==
            IF ~Has(av, f) THEN TRUE
            ELSE IF f \in NestedGroups THEN DOMAIN Delta(av[f], ev[f]) # {}
            ELSE av[f] # ev[f]
    IN  [f \in {x \in DOMAIN ev : differs(x)} |->
            IF f \in NestedGroups /\ Has(av, f) THEN Delta(av[f], ev[f]) ELSE ev[f]]

BuildChanges(actual, t) == IF actual = None THEN t ELSE Delta(actual[1], t)

\* CheckChanges: TRUE when it returns no error
CheckChanges(actual, t, ch) == Has(t, "Name")

----------------------------------------------------------------------------
(* update *)

LaunchSpec == {"Compute", "Compute.LaunchSpecification"}
InstanceTypes == {"Compute", "Compute.InstanceTypes"}

\* one handled field: allocate the nested structures, set the value, clear the Delta field
Set(st, field, structs, path, value) ==
    IF st.outcome # "ok" \/ ~Has(st.changes, field) THEN st
    ELSE [st EXCEPT !.group.structs = @ \cup structs,
                    !.group.f = Put(@, path, value),
                    !.changes = Drop(@, {field}),
                    !.changed = TRUE]

\* a value placed in the request when cond holds
Place(cond, st, structs, path, value) ==
    IF cond
    THEN [st EXCEPT !.group.structs = @ \cup structs,
                    !.group.f = Put(@, path, value),
                    !.changed = TRUE]
    ELSE st

\* changes.X = nil
Handled(st, field) == [st EXCEPT !.changes = Drop(@, {field})]

SetNull(st, structs, path) ==
    [st EXCEPT !.group.structs = @ \cup structs,
               !.group.f = Drop(@, {path}),
               !.group.nulls = @ \cup {path}]

Fail(st, outcome) == [st EXCEPT !.outcome = outcome]

\* update, user data: sent only when not empty
updateUserData(st, t) ==
    IF st.outcome # "ok" \/ ~Has(st.changes, "UserData") THEN st
    ELSE Handled(Place(t["UserData"] # "", st, LaunchSpec,
                       "Compute.LaunchSpecification.UserData",
                       EncodeToString(t["UserData"])),
                 "UserData")

\* update, root volume options, with the devices built: the mapping is sent when Type,
\* Size or IOPS is in the Delta's options, EBSOptimized when Optimization is
placeRootVolumeOpts(st, t, opts, mapped, root, eph) ==
    IF mapped /\ root.outcome # "ok" THEN Fail(st, root.outcome)
    ELSE IF mapped /\ eph = None THEN Fail(st, "error")
    ELSE Handled(Place(Has(opts, "Optimization"),
                       Place(mapped, st, LaunchSpec,
                             "Compute.LaunchSpecification.BlockDeviceMappings",
                             BlockDeviceMappings(root.bdm, eph[1])),
                       LaunchSpec, "Compute.LaunchSpecification.EBSOptimized",
                       t["RootVolumeOpts"]["Optimization"]),
                 "RootVolumeOpts")

\* update, root volume options: the root device is built from the Delta's options
updateRootVolumeOpts(st, t) ==
    IF st.outcome # "ok" \/ ~Has(st.changes, "RootVolumeOpts") THEN st
    ELSE placeRootVolumeOpts(st, t, st.changes["RootVolumeOpts"],
            Has(st.changes["RootVolumeOpts"], "Type")
                \/ Has(st.changes["RootVolumeOpts"], "Size")
                \/ Has(st.changes["RootVolumeOpts"], "IOPS"),
            buildRootDevice(Some(st.changes["RootVolumeOpts"]), Opt(t, "ImageID")),
            buildEphemeralDevices(Opt(t, "OnDemandInstanceType")))

\* update, image, with the image resolved: sent when it differs from the live group's
placeImage(st, live, image) ==
    IF image = None THEN Fail(st, "error")
    ELSE IF ~Has(live.f, "Compute.LaunchSpecification.ImageID") THEN Fail(st, "panic")
    ELSE Handled(Place(live.f["Compute.LaunchSpecification.ImageID"] # image[1].ImageId,
                       st, LaunchSpec, "Compute.LaunchSpecification.ImageID",
                       image[1].ImageId),
                 "ImageID")

updateImage(st, t, live) ==
    IF st.outcome # "ok" \/ ~Has(st.changes, "ImageID") THEN st
    ELSE placeImage(st, live, resolveImage(StringValue(Opt(t, "ImageID"))))

\* an updateLoadBalancer for which a name resolving to neither kind is an error
updateLoadBalancerStrict(st, c, t) ==
    IF st.outcome # "ok" \/ ~Has(st.changes, "LoadBalancer") THEN st
    ELSE IF FindELBByNameTag(c, t["LoadBalancer"]) # None
    THEN Set(st, "LoadBalancer", LaunchSpec,
             "Compute.LaunchSpecification.LoadBalancersConfig",
             <<[Name |-> FindELBByNameTag(c, t["LoadBalancer"])[1].LoadBalancerName,
                Type |-> "CLASSIC"]>>)
    ELSE IF FindELBV2ByNameTag(c, t["LoadBalancer"]) # None
    THEN Set(st, "LoadBalancer", LaunchSpec,
             "Compute.LaunchSpecification.LoadBalancersConfig",
             <<[Name |-> FindELBV2ByNameTag(c, t["LoadBalancer"])[1].LoadBalancerName,
                Type |-> "NETWORK"]>>)
    ELSE Fail(st, "error")

\* update, load balancer: the classic kind is looked up first, the network kind only
\* when there is no classic one; a name resolving to neither stays in the Delta
updateLoadBalancer(st, c, t) ==
    IF st.outcome # "ok" \/ ~Has(st.changes, "LoadBalancer") THEN st
    ELSE IF FindELBByNameTag(c, t["LoadBalancer"]) # None
    THEN Set(st, "LoadBalancer", LaunchSpec,
             "Compute.LaunchSpecification.LoadBalancersConfig",
             <<[Name |-> FindELBByNameTag(c, t["LoadBalancer"])[1].LoadBalancerName,
                Type |-> "CLASSIC"]>>)
    ELSE IF FindELBV2ByNameTag(c, t["LoadBalancer"]) # None
    THEN Set(st, "LoadBalancer", LaunchSpec,
             "Compute.LaunchSpecification.LoadBalancersConfig",
             <<[Name |-> FindELBV2ByNameTag(c, t["LoadBalancer"])[1].LoadBalancerName,
                Type |-> "NETWORK"]>>)
    ELSE st

\* an updateCapacity that raises Target also when it equals the desired MinSize
updateCapacityAtMost(st, t, live) ==
    IF st.outcome # "ok" THEN st
    ELSE IF Has(st.changes, "MinSize") /\ ~Has(live.f, "Capacity.Target") THEN Fail(st, "panic")
    ELSE Set(Place(Has(st.changes, "MinSize") /\ live.f["Capacity.Target"] <= t["MinSize"],
                   Set(st, "MinSize", {"Capacity"}, "Capacity.Minimum", t["MinSize"]),
                   {"Capacity"}, "Capacity.Target", t["MinSize"]),
             "MaxSize", {"Capacity"}, "Capacity.Maximum", t["MaxSize"])

\* update, capacity: Target follows MinSize up, never down; "panic" when MinSize changed
\* and the live group has no Target
updateCapacity(st, t, live) ==
    IF st.outcome # "ok" THEN st
    ELSE IF Has(st.changes, "MinSize") /\ ~Has(live.f, "Capacity.Target") THEN Fail(st, "panic")
    ELSE Set(Place(Has(st.changes, "MinSize") /\ live.f["Capacity.Target"] < t["MinSize"],
                   Set(st, "MinSize", {"Capacity"}, "Capacity.Minimum", t["MinSize"]),
                   {"Capacity"}, "Capacity.Target", t["MinSize"]),
             "MaxSize", {"Capacity"}, "Capacity.Maximum", t["MaxSize"])

AutoScale == {"Integration", "Integration.Kubernetes.AutoScale"}

\* update, auto scaler: IsEnabled and Cooldown from the desired options
autoScalerEnabled(st, want) ==
    [st EXCEPT !.group.structs = @ \cup AutoScale,
               !.group.f = PutOpt(Put(@, "Integration.Kubernetes.AutoScale.IsEnabled",
                                      want["Enabled"]),
                                  "Integration.Kubernetes.AutoScale.Cooldown",
                                  Opt(want, "Cooldown")),
               !.changed = TRUE]

\* update, auto scaler, headroom: set from the desired options, or nulled when the
\* actual state has one
autoScalerHeadroom(st, opts, live, want) ==
    IF Has(opts, "Headroom")
    THEN [st EXCEPT !.group.f =
            Put(Put(@, "Integration.Kubernetes.AutoScale.IsAutoConfig", FALSE),
                "Integration.Kubernetes.AutoScale.Headroom",
                AutoScaleHeadroom(want["Headroom"]))]
    ELSE IF Has(live, "Headroom")
    THEN SetNull([st EXCEPT !.group.f =
                    Put(@, "Integration.Kubernetes.AutoScale.IsAutoConfig", TRUE)],
                 AutoScale, "Integration.Kubernetes.AutoScale.Headroom")
    ELSE st

autoScalerDown(st, opts, live) ==
    IF Has(opts, "Down")
    THEN [st EXCEPT !.group.f = Put(@, "Integration.Kubernetes.AutoScale.Down",
                                    AutoScaleDown(opts["Down"]))]
    ELSE IF Has(live, "Down")
    THEN SetNull(st, AutoScale, "Integration.Kubernetes.AutoScale.Down")
    ELSE st

autoScalerLabels(st, opts, live, want, labelOrder) ==
    IF Has(opts, "Labels")
    THEN [st EXCEPT !.group.f = Put(@, "Integration.Kubernetes.AutoScale.Labels",
                                    buildAutoScaleLabels(want["Labels"], labelOrder))]
    ELSE IF Has(live, "Labels")
    THEN SetNull(st, AutoScale, "Integration.Kubernetes.AutoScale.Labels")
    ELSE st

\* update, auto scaler: "panic" when the Delta's options lack Down or Labels and the
\* actual state has no AutoScalerOpts to look into
updateAutoScaler(st, actual, t, labelOrder) ==
    IF st.outcome # "ok" \/ ~Has(st.changes, "AutoScalerOpts") THEN st
    ELSE IF ~Has(st.changes["AutoScalerOpts"], "Enabled") THEN Handled(st, "AutoScalerOpts")
    ELSE IF ~Has(actual[1], "AutoScalerOpts")
            /\ (~Has(st.changes["AutoScalerOpts"], "Down")
                \/ ~Has(st.changes["AutoScalerOpts"], "Labels"))
    THEN Fail(st, "panic")
    ELSE Handled(
           autoScalerLabels(
             autoScalerDown(
               autoScalerHeadroom(
                 autoScalerEnabled(st, t["AutoScalerOpts"]),
                 st.changes["AutoScalerOpts"], MapOf(actual[1], "AutoScalerOpts"),
                 t["AutoScalerOpts"]),
               st.changes["AutoScalerOpts"], MapOf(actual[1], "AutoScalerOpts")),
             st.changes["AutoScalerOpts"], MapOf(actual[1], "AutoScalerOpts"),
             t["AutoScalerOpts"], labelOrder),
           "AutoScalerOpts")

\* update, the i-th section in source order, on the request state the earlier ones left
updateSection(i, st, c, actual, t, live, tagOrder, labelOrder) ==
    CASE i = 1 -> Set(st, "Region", {}, "Region", t["Region"])
      [] i = 2 -> Set(st, "SpotPercentage", {"Strategy"}, "Strategy.Risk", t["SpotPercentage"])
      [] i = 3 -> Set(st, "Orientation", {"Strategy"}, "Strategy.AvailabilityVsCost",
                      normalizeOrientation(Opt(t, "Orientation")))
      [] i = 4 -> Set(st, "FallbackToOnDemand", {"Strategy"}, "Strategy.FallbackToOnDemand",
                      t["FallbackToOnDemand"])
      [] i = 5 -> Set(st, "UtilizeReservedInstances", {"Strategy"},
                      "Strategy.UtilizeReservedInstances", t["UtilizeReservedInstances"])
      [] i = 6 -> Set(st, "DrainingTimeout", {"Strategy"}, "Strategy.DrainingTimeout",
                      t["DrainingTimeout"])
      [] i = 7 -> Set(st, "Product", {"Compute"}, "Compute.Product", t["Product"])
      [] i = 8 -> Set(st, "OnDemandInstanceType", InstanceTypes,
                      "Compute.InstanceTypes.OnDemand", t["OnDemandInstanceType"])
      [] i = 9 -> Set(st, "SpotInstanceTypes", InstanceTypes, "Compute.InstanceTypes.Spot",
                      t["SpotInstanceTypes"])
      [] i = 10 -> Set(st, "Subnets", {"Compute"}, "Compute.SubnetIDs", t["Subnets"])
      [] i = 11 -> Set(st, "SecurityGroups", LaunchSpec,
                       "Compute.LaunchSpecification.SecurityGroupIDs", t["SecurityGroups"])
      [] i = 12 -> updateUserData(st, t)
      [] i = 13 -> Set(st, "AssociatePublicIP", LaunchSpec,
                       "Compute.LaunchSpecification.NetworkInterfaces",
                       <<NetworkInterface(st.changes["AssociatePublicIP"])>>)
      [] i = 14 -> updateRootVolumeOpts(st, t)
      [] i = 15 -> updateImage(st, t, live)
      [] i = 16 -> Set(st, "Tags", LaunchSpec, "Compute.LaunchSpecification.Tags",
                       buildTags(t["Tags"], tagOrder))
      [] i = 17 -> Set(st, "IAMInstanceProfile", LaunchSpec,
                       "Compute.LaunchSpecification.IAMInstanceProfile",
                       t["IAMInstanceProfile"])
      [] i = 18 -> Set(st, "Monitoring", LaunchSpec,
                       "Compute.LaunchSpecification.Monitoring", t["Monitoring"])
      [] i = 19 -> Set(st, "SSHKey", LaunchSpec, "Compute.LaunchSpecification.KeyPair",
                       t["SSHKey"])
      [] i = 20 -> updateLoadBalancer(st, c, t)
      [] i = 21 -> Set(st, "Tenancy", LaunchSpec, "Compute.LaunchSpecification.Tenancy",
                       t["Tenancy"])
      [] i = 22 -> Set(st, "HealthCheckType", LaunchSpec,
                       "Compute.LaunchSpecification.HealthCheckType", t["HealthCheckType"])
      [] i = 23 -> updateCapacity(st, t, live)
      [] i = 24 -> updateAutoScaler(st, actual, t, labelOrder)
      [] OTHER -> st

\* update, the sections from the i-th on, in order
RECURSIVE updateFrom(_, _, _, _, _, _, _, _)
updateFrom(i, st, c, actual, t, live, tagOrder, labelOrder) ==
    IF i > 24 THEN st
    ELSE updateFrom(i + 1, updateSection(i, st, c, actual, t, live, tagOrder, labelOrder),
                    c, actual, t, live, tagOrder, labelOrder)

\* an updateFound whose request starts with the structures create allocates up front
updateFoundAllocated(found, c, actual, t, ch, tagOrder, labelOrder) ==
    IF found.outcome # "ok"
    THEN [outcome |-> "error", group |-> EmptyGroup, changes |-> ch, changed |-> FALSE]
    ELSE updateFrom(1, [outcome |-> "ok",
                        group |-> [EmptyGroup EXCEPT
                                     !.f = Put(@, "ID", found.out[1].f["ID"]),
                                     !.structs = {"Capacity", "Strategy", "Compute"}],
                        changes |-> ch, changed |-> FALSE],
                    c, actual, t, found.out[1], tagOrder, labelOrder)

\* an updateFound that starts with the changed flag set
updateFoundChanged(found, c, actual, t, ch, tagOrder, labelOrder) ==
    IF found.outcome # "ok"
    THEN [outcome |-> "error", group |-> EmptyGroup, changes |-> ch, changed |-> FALSE]
    ELSE updateFrom(1, [outcome |-> "ok",
                        group |-> [EmptyGroup EXCEPT !.f = Put(@, "ID", found.out[1].f["ID"])],
                        changes |-> ch, changed |-> TRUE],
                    c, actual, t, found.out[1], tagOrder, labelOrder)

\* update, once the live group is listed: the request starts with the group's ID
updateFound(found, c, actual, t, ch, tagOrder, labelOrder) ==
    IF found.outcome # "ok"
    THEN [outcome |-> "error", group |-> EmptyGroup, changes |-> ch, changed |-> FALSE]
    ELSE updateFrom(1, [outcome |-> "ok",
                        group |-> [EmptyGroup EXCEPT !.f = Put(@, "ID", found.out[1].f["ID"])],
                        changes |-> ch, changed |-> FALSE],
                    c, actual, t, found.out[1], tagOrder, labelOrder)

\* update, up to the provider call: the request built from the Delta ch, the Delta fields
\* left over, and whether anything was placed in the request
update(c, actual, t, ch, listed, tagOrder, labelOrder) ==
    updateFound(find(listed, t["Name"]), c, actual, t, ch, tagOrder, labelOrder)

----------------------------------------------------------------------------
(* RenderTerraform: the document emitted for the Terraform target *)

\* a referenced task's TerraformLink(): the deferred token naming the resource kind,
\* the task and the attribute
TerraformLink(kind, name) == [kind |-> kind, name |-> name, attr |-> "id"]
TerraformLinks(kind, names) == [i \in DOMAIN names |-> TerraformLink(kind, names[i])]

\* t.AddFileResource: the literal that refers to the file written for the resource
AddFileResource(kind, name, key) == [file |-> <<kind, name, key>>]

\* awstasks.CloudTagInstanceGroupRolePrefix: the tag keys that carry it, with what
\* strings.TrimPrefix leaves of them
RoleTagSuffix ==
    ("k8s.io/role/node" :> "node") @@ ("k8s.io/role/master" :> "master")
        @@ ("k8s.io/role/" :> "")

\* the suffixes of the role tags of a tag map
roleSuffixes(tags) == {RoleTagSuffix[k] : k \in DOMAIN tags \cap DOMAIN RoleTagSuffix}

\* RenderTerraform, role: the loop over the tag keys from the i-th key visited on, role
\* being the suffix kept so far; a suffix that differs from a non-empty role is an error
RECURSIVE roleOf(_, _, _)
roleOf(roleOrder, i, role) ==
    IF i > Len(roleOrder) THEN [outcome |-> "ok", role |-> role]
    ELSE IF roleOrder[i] \notin DOMAIN RoleTagSuffix THEN roleOf(roleOrder, i + 1, role)
    ELSE IF role # "" /\ role # RoleTagSuffix[roleOrder[i]]
    THEN [outcome |-> "error", role |-> role]
    ELSE roleOf(roleOrder, i + 1, RoleTagSuffix[roleOrder[i]])

\* t.AddOutputVariableArray: the output variables aggregated under the role
terraformOutputs(role, t) ==
    IF role = "" THEN Clear
    ELSE PutIf(Has(t, "Subnets"),
           PutIf(Has(t, "SecurityGroups"), Clear,
                 <<role, "security_groups">>,
                 TerraformLinks("aws_security_group", t["SecurityGroups"])),
           <<role, "subnet_ids">>, TerraformLinks("aws_subnet", t["Subnets"]))

\* RenderTerraform, root volume: the ebs_block_device block
terraformRootBlockDevice(rootDevice) ==
    FromSeq(<< <<"DeviceName", Opt(rootDevice, "DeviceName")>>,
               <<"VolumeType", Opt(rootDevice, "EbsVolumeType")>>,
               <<"VolumeSize", Opt(rootDevice, "EbsVolumeSize")>>,
               <<"VolumeIOPS", Opt(rootDevice, "EbsVolumeIops")>>,
               <<"VolumeThroughput", Opt(rootDevice, "EbsVolumeThroughput")>>,
               <<"DeleteOnTermination", Some(TRUE)>> >>)

\* RenderTerraform, root volume: the ephemeral_block_device blocks
terraformEphemeralBlockDevice(ephemeralDevices) ==
    [i \in DOMAIN ephemeralDevices |->
        FromSeq(<< <<"DeviceName", Opt(ephemeralDevices[i], "DeviceName")>>,
                   <<"VirtualName", Opt(ephemeralDevices[i], "VirtualName")>> >>)]

\* RenderTerraform, root volume options: the fields set when RootVolumeOpts is there
terraformRootVolumeOpts(opts, root, eph) ==
    << <<"RootBlockDevice", Some(terraformRootBlockDevice(root.bdm))>>,
       <<"EphemeralBlockDevice",
         IF Len(eph[1]) # 0 THEN Some(terraformEphemeralBlockDevice(eph[1])) ELSE None>>,
       <<"EBSOptimized", Opt(opts, "Optimization")>> >>

\* RenderTerraform, auto scaler: the integration_kubernetes block
terraformIntegration(opts, labelOrder) ==
    FromSeq(
      << <<"IntegrationMode", Some("pod")>>,
         <<"ClusterIdentifier", Opt(opts, "ClusterID")>> >> \o
      IF ~Has(opts, "Enabled") THEN <<>>
      ELSE
        << <<"Enabled", Some(opts["Enabled"])>>,
           <<"AutoConfig", Some(~Has(opts, "Headroom"))>>,
           <<"Cooldown", Opt(opts, "Cooldown")>>,
           <<"Headroom",
             IF Has(opts, "Headroom")
             THEN Some(FromSeq(<< <<"CPUPerUnit", Opt(opts["Headroom"], "CPUPerUnit")>>,
                                  <<"GPUPerUnit", Opt(opts["Headroom"], "GPUPerUnit")>>,
                                  <<"MemPerUnit", Opt(opts["Headroom"], "MemPerUnit")>>,
                                  <<"NumOfUnits", Opt(opts["Headroom"], "NumOfUnits")>> >>))
             ELSE None>>,
           <<"Down",
             IF Has(opts, "Down")
             THEN Some(FromSeq(<< <<"MaxPercentage", Opt(opts["Down"], "MaxPercentage")>>,
                                  <<"EvaluationPeriods",
                                    Opt(opts["Down"], "EvaluationPeriods")>> >>))
             ELSE None>>,
           <<"Labels",
             IF Has(opts, "Labels")
             THEN Some([i \in DOMAIN labelOrder |->
                          [Key |-> labelOrder[i], Value |-> opts["Labels"][labelOrder[i]]]])
             ELSE None>> >>)

\* RenderTerraform, tags: buildTags' entries copied in their order
terraformTags(tags) == [i \in DOMAIN tags |-> [Key |-> tags[i].Key, Value |-> tags[i].Value]]

Emitted(outcome, resource, outputs, files) ==
    [outcome |-> outcome, resource |-> resource, outputs |-> outputs, files |-> files]

\* RenderTerraform after applyDefaults, given what the resolvers answered: the resource
\* block, the output variables and the files handed to the target
terraformResource(t, image, root, eph, roleOrder, tagOrder, labelOrder) ==
    IF Has(t, "ImageID") /\ image = None THEN Emitted("error", Clear, Clear, Clear)
    ELSE IF roleOf(roleOrder, 1, "").outcome # "ok"
    THEN Emitted("error", Clear, Clear, Clear)
    ELSE IF Has(t, "UserData") /\ ~Has(t, "Name") THEN Emitted("panic", Clear, Clear, Clear)
    ELSE IF Has(t, "RootVolumeOpts") /\ (root.outcome # "ok" \/ eph = None)
    THEN Emitted("error", Clear, Clear, Clear)
    ELSE IF ~Has(t, "Name") THEN Emitted("panic", Clear, Clear, Clear)
    ELSE
    Emitted("ok",
      FromSeq(
        << <<"Name", Opt(t, "Name")>>,
           <<"Description", Opt(t, "Name")>>,
           <<"Product", Opt(t, "Product")>>,
           <<"Region", Opt(t, "Region")>>,
           <<"DesiredCapacity", Opt(t, "MinSize")>>,
           <<"MinSize", Opt(t, "MinSize")>>,
           <<"MaxSize", Opt(t, "MaxSize")>>,
           <<"CapacityUnit", Some("instance")>>,
           <<"SpotPercentage", Opt(t, "SpotPercentage")>>,
           <<"Orientation", Some(normalizeOrientation(Opt(t, "Orientation")))>>,
           <<"FallbackToOnDemand", Opt(t, "FallbackToOnDemand")>>,
           <<"UtilizeReservedInstances", Opt(t, "UtilizeReservedInstances")>>,
           <<"DrainingTimeout", Opt(t, "DrainingTimeout")>>,
           <<"OnDemand", Opt(t, "OnDemandInstanceType")>>,
           <<"Spot", Opt(t, "SpotInstanceTypes")>>,
           <<"ImageID", IF Has(t, "ImageID") THEN Some(image[1].ImageId) ELSE None>>,
           <<"SecurityGroups",
             IF Has(t, "SecurityGroups")
             THEN Some(TerraformLinks("aws_security_group", t["SecurityGroups"])) ELSE None>>,
           <<"UserData",
             IF Has(t, "UserData")
             THEN Some(AddFileResource("spotinst_elastigroup_aws", t["Name"], "user_data"))
             ELSE None>>,
           <<"IAMInstanceProfile",
             IF Has(t, "IAMInstanceProfile")
             THEN Some(TerraformLink("aws_iam_instance_profile", t["IAMInstanceProfile"]))
             ELSE None>>,
           <<"Monitoring", Opt(t, "Monitoring")>>,
           <<"HealthCheckType", Opt(t, "HealthCheckType")>>,
           <<"KeyName",
             IF Has(t, "SSHKey") THEN Some(TerraformLink("aws_key_pair", t["SSHKey"]))
             ELSE None>>,
           <<"SubnetIDs",
             IF Has(t, "Subnets") THEN Some(TerraformLinks("aws_subnet", t["Subnets"]))
             ELSE None>>,
           <<"LoadBalancers",
             IF Has(t, "LoadBalancer")
             THEN Some(<<TerraformLink("aws_elb", t["LoadBalancer"])>>) ELSE None>>,
           <<"NetworkInterfaces",
             IF Has(t, "AssociatePublicIP")
             THEN Some(<<NetworkInterface(t["AssociatePublicIP"])>>) ELSE None>>,
           <<"Integration",
             IF Has(t, "AutoScalerOpts")
             THEN Some(terraformIntegration(t["AutoScalerOpts"], labelOrder)) ELSE None>>,
           <<"Tags",
             IF Has(t, "Tags") THEN Some(terraformTags(buildTags(t["Tags"], tagOrder)))
             ELSE None>> >>
        \o (IF Has(t, "RootVolumeOpts")
            THEN terraformRootVolumeOpts(t["RootVolumeOpts"], root, eph) ELSE <<>>)),
      terraformOutputs(roleOf(roleOrder, 1, "").role, t),
      IF Has(t, "UserData")
      THEN (<<"spotinst_elastigroup_aws", t["Name"], "user_data">> :> t["UserData"])
      ELSE Clear)

\* RenderTerraform(t, a, e, changes): neither a nor changes is read
terraformDefaulted(t, roleOrder, tagOrder, labelOrder) ==
    terraformResource(t, resolveImage(StringValue(Opt(t, "ImageID"))),
                      buildRootDevice(Opt(t, "RootVolumeOpts"), Opt(t, "ImageID")),
                      buildEphemeralDevices(Opt(t, "OnDemandInstanceType")),
                      roleOrder, tagOrder, labelOrder)

RenderTerraform(c, actual, t, ch, roleOrder, tagOrder, labelOrder) ==
    terraformDefaulted(applyDefaults(t), roleOrder, tagOrder, labelOrder)

----------------------------------------------------------------------------
(* The provider *)

GroupID(n) == <<"sig", n>>

\* Create: the provider stores the group as sent and returns its new id
ProviderCreate(gs, g) ==
    Append(gs, [structs |-> g.structs, f |-> Put(g.f, "ID", GroupID(Len(gs) + 1))])

\* Update: the fields sent replace the stored ones, the nulled ones are removed
ProviderUpdate(gs, g) ==
    [i \in DOMAIN gs |->
        IF gs[i].f["ID"] = g.f["ID"]
        THEN [structs |-> gs[i].structs \cup g.structs,
              f |-> g.f @@ Drop(gs[i].f, g.nulls)]
        ELSE gs[i]]

----------------------------------------------------------------------------
(* The desired specifications and provider states the passes start from *)

Apply(t, v) == v.put @@ Drop(t, v.drop)
V(put, drop) == [put |-> put, drop |-> drop]

Base ==
    [Name |-> "nodes", Lifecycle |-> "Sync", Region |-> "us-east-1",
     MinSize |-> 2, MaxSize |-> 5,
     ImageID |-> "ubuntu", OnDemandInstanceType |-> "m5.large", SSHKey |-> "admin-key",
     IAMInstanceProfile |-> "nodes-profile",
     RootVolumeOpts |-> [Type |-> "gp2", Size |-> 20],
     Subnets |-> <<"subnet-a", "subnet-b">>, SecurityGroups |-> <<"sg-nodes">>]

CapacityVariants ==
    {V(Clear, {}), V(Clear, {"Name"}), V(Clear, {"MinSize"}), V(Clear, {"MaxSize"}),
     V([MinSize |-> 5, MaxSize |-> 5], {}), V([MinSize |-> 4, MaxSize |-> 4], {}),
     V([MaxSize |-> 3], {})}

OrientationVariants ==
    {V([Orientation |-> o], {}) :
        o \in {"", "balanced", "cost", "availability", "equal-distribution"}}

RootVolumeVariants ==
    {V([RootVolumeOpts |-> [Size |-> 20] @@ ty @@ io @@ th], {}) :
        ty \in {[Type |-> "gp2"], [Type |-> "gp3"], [Type |-> "io1"]},
        io \in {Clear, [IOPS |-> 3000]},
        th \in {Clear, [Throughput |-> 125]}}
    \cup {V([RootVolumeOpts |-> [Type |-> "gp2", Size |-> 20, Optimization |-> op]], {}) :
            op \in BOOLEAN}
    \cup {V(Clear, {"RootVolumeOpts"})}

AutoScalerVariants ==
    {V([AutoScalerOpts |-> [ClusterID |-> "cluster"]], {})} \cup
    {V([AutoScalerOpts |-> [ClusterID |-> "cluster", Enabled |-> TRUE] @@ o], {}) :
        o \in {Clear,
               [Cooldown |-> 300],
               [Headroom |-> [CPUPerUnit |-> 0, NumOfUnits |-> 1]],
               [Headroom |-> [CPUPerUnit |-> 100, NumOfUnits |-> 1]],
               [Down |-> [EvaluationPeriods |-> 5]],
               [Labels |-> [role |-> "node"]],
               [Headroom |-> [CPUPerUnit |-> 100, NumOfUnits |-> 1],
                Down |-> [EvaluationPeriods |-> 5], Labels |-> [role |-> "node"]]}}

ReferenceVariants ==
    {V([LoadBalancer |-> "api"], {}), V(Clear, {"SSHKey"}), V(Clear, {"ImageID"}),
     V(Clear, {"IAMInstanceProfile"}), V([ImageID |-> "ami-2"], {}),
     V([OnDemandInstanceType |-> "m3.large"], {}),
     V([Tags |-> [KubernetesCluster |-> "c", Role |-> "node"]], {}),
     V([UserData |-> "#!/bin/bash"], {}), V([AssociatePublicIP |-> TRUE], {}),
     V([SpotPercentage |-> 50, DrainingTimeout |-> 120, Tenancy |-> "default",
        SpotInstanceTypes |-> <<"m5.large", "m5.xlarge">>], {})}

\* specifications with a role tag, with two role tags, with a role tag and a tag whose
\* key is the bare role prefix, with two labels, and with ephemeral devices but no root
\* volume options
EmissionVariants ==
    {V([Tags |-> ("k8s.io/role/node" :> "1") @@ [KubernetesCluster |-> "c"]], {}),
     V([Tags |-> ("k8s.io/role/node" :> "1") @@ ("k8s.io/role/master" :> "1")], {}),
     V([Tags |-> ("k8s.io/role/node" :> "1") @@ ("k8s.io/role/" :> "1")], {}),
     V([AutoScalerOpts |-> [ClusterID |-> "cluster", Enabled |-> TRUE,
                            Labels |-> [role |-> "node", zone |-> "a"]]], {}),
     V([OnDemandInstanceType |-> "m3.large"], {"RootVolumeOpts"})}

DesiredSpecs ==
    {Apply(Base, v) : v \in CapacityVariants \cup OrientationVariants \cup RootVolumeVariants
                            \cup AutoScalerVariants \cup ReferenceVariants}

\* what an earlier specification of the same group may have differed in
PriorVariants ==
    {V(Clear, {}),
     V([MinSize |-> 2, MaxSize |-> 4], {}),
     V([MaxSize |-> 4], {}),
     V([RootVolumeOpts |-> [Type |-> "gp2", Size |-> 20, IOPS |-> 100]], {}),
     V([RootVolumeOpts |-> [Type |-> "gp3", Size |-> 20, IOPS |-> 3000, Throughput |-> 250]], {}),
     V(Clear, {"LoadBalancer"}),
     V(Clear, {"AutoScalerOpts"}),
     V([AutoScalerOpts |-> [ClusterID |-> "cluster", Enabled |-> FALSE,
                            Headroom |-> [CPUPerUnit |-> 100, NumOfUnits |-> 1],
                            Down |-> [EvaluationPeriods |-> 5],
                            Labels |-> [role |-> "node"]]], {}),
     V([AutoScalerOpts |-> [ClusterID |-> "cluster", Enabled |-> FALSE, Cooldown |-> 300]], {}),
     V([AutoScalerOpts |-> [ClusterID |-> "cluster", Enabled |-> TRUE, Cooldown |-> 600,
                            Headroom |-> [CPUPerUnit |-> 200, NumOfUnits |-> 1],
                            Down |-> [EvaluationPeriods |-> 3],
                            Labels |-> [role |-> "master"]]], {}),
     V([OnDemandInstanceType |-> "m5.large", SpotPercentage |-> 80], {}),
     V([MaxSize |-> 4], {"LoadBalancer"}),
     V([Subnets |-> <<"subnet-b", "subnet-a">>], {}),
     V([Subnets |-> <<"subnet-b", "subnet-a">>, MaxSize |-> 4], {}),
     V([Subnets |-> <<"subnet-a">>, SecurityGroups |-> <<"sg-old">>, ImageID |-> "ami-2"], {})}

\* the cloud the earlier group was created in
PriorCloud == [elb |-> TRUE, nlb |-> FALSE]

AnyOrder(m) == CHOOSE o \in Orders(m) : TRUE

\* the group the provider holds after an earlier create from the specification t,
\* its target capacity moved to target by scaling since
StoredGroup(t, id, target) ==
    LET d == applyDefaults(t)
        g == createGroup(PriorCloud, d, AnyOrder(MapOf(d, "Tags")),
                         AnyOrder(MapOf(MapOf(d, "AutoScalerOpts"), "Labels"))).group
    IN  [structs |-> g.structs,
         f |-> PutOpt(Put(Drop(g.f, {"Capacity.Target"}), "ID", GroupID(id)),
                      "Capacity.Target", target)]

\* the fields in which a specification differs from the base, and those a variant touches
Differs(d) == {f \in DOMAIN d \cup DOMAIN Base : Opt(d, f) # Opt(Base, f)}
Touched(v) == v.drop \cup DOMAIN v.put

\* the earlier specifications of the group: the same one, and those that differed in a
\* field the desired one sets (any of them for the base specification)
PriorSpecs(d) ==
    {Apply(d @@ Base, v) :
        v \in {w \in PriorVariants :
                 w = V(Clear, {}) \/ d = Base \/ Touched(w) \cap Differs(d) # {}}}

\* the earlier specifications whose capacity differs, and the targets scaling may leave
CapacityPriors(d) ==
    IF d = Base \/ Differs(d) \cap {"MinSize", "MaxSize"} # {}
    THEN {Apply(d @@ Base, v) : v \in {V(Clear, {}), V([MinSize |-> 2, MaxSize |-> 4], {})}}
    ELSE {}

\* what the provider lists at the start: nothing, the group as created earlier, and for
\* the base specification a group without target, a group of another name, and two
\* groups of the task's name
InitialGroups(d) ==
    {<<>>}
    \cup {<<StoredGroup(p, 1, Some(p["MinSize"]))>> : p \in PriorSpecs(d)}
    \cup {<<StoredGroup(p, 1, Some(p["MaxSize"]))>> : p \in CapacityPriors(d)}
    \cup (IF d # Base THEN {} ELSE
            {<<StoredGroup(d, 1, None)>>,
             <<StoredGroup(Put(d, "Name", "masters"), 1, Some(2))>>,
             <<StoredGroup(Apply(d, V([MaxSize |-> 4], {})), 1, Some(2)),
               StoredGroup(d, 2, Some(2))>>})

Clouds(d) ==
    IF Has(d, "LoadBalancer") THEN [elb : BOOLEAN, nlb : BOOLEAN] ELSE {PriorCloud}

----------------------------------------------------------------------------
(* Provider responses *)

TransientMessage == "Invalid IAM Instance Profile name: nodes-profile"
OtherMessage == "Group name already in use"

\* strings.Contains(err.Message, "Invalid IAM Instance Profile name")
ContainsInvalidProfile(message) == message = TransientMessage

\* what a provider Create call can answer: an id, a client.Errors collection, or an
\* error of another type
CreateResponses ==
    {[kind |-> "ok", messages |-> <<>>],
     [kind |-> "Errors", messages |-> <<OtherMessage, TransientMessage>>],
     [kind |-> "Errors", messages |-> <<OtherMessage>>],
     [kind |-> "error", messages |-> <<>>]}

NoError == [phase |-> "", cause |-> ""]
NoRequest == [kind |-> "none", group |-> EmptyGroup]

\* the record kept of one pass
NewLog ==
    [lists |-> 0,            \* provider List calls
     listFailed |-> FALSE,   \* a List call of discovery failed
     matches |-> 0,          \* groups with the task's name at the last successful List
     existing |-> FALSE,     \* CheckExisting's answer
     creates |-> 0,          \* provider Create calls
     created |-> FALSE,      \* a Create call succeeded
     responses |-> {},       \* the kinds of answers the Create calls got
     last |-> [kind |-> "none", messages |-> <<>>],   \* the last Create answer
     updates |-> 0,          \* provider Update calls
     delta |-> Clear,        \* the Delta as computed
     entered |-> "none",     \* the renderer entered: "create" or "update"
     target |-> None,        \* the live group's Target when update listed it
     found |-> FALSE,        \* update listed the live group
     warning |-> FALSE,      \* "Not all changes applied"
     document |-> None,      \* the document RenderTerraform handed to the target
     err |-> NoError]        \* the error the pass returned

----------------------------------------------------------------------------
(* The reconciliation pass *)

\* a pass over one task: no task set is ordered
NoGraph == tasks = <<>> /\ ordering = <<>> /\ stage = "none" /\ status = <<>>

Init ==
    /\ desired \in DesiredSpecs
    /\ e = desired
    /\ a = None
    /\ changes = Clear
    /\ pc = "CheckExisting"
    /\ pass = 1
    /\ groups \in InitialGroups(desired)
    /\ cloud \in Clouds(desired)
    /\ group = EmptyGroup
    /\ attempt = 0
    /\ sent = NoRequest
    /\ log = <<NewLog>>
    /\ NoGraph

\* what a provider List call returns: the groups, or None for an error
Listed(ok) == IF ok THEN Some(groups) ELSE None
Matches(name) == Cardinality({i \in DOMAIN groups : groups[i].f["Name"] = name})

Error(phase, cause) == [phase |-> phase, cause |-> cause]
Logged(l) == [log EXCEPT ![pass] = l]
Cur == log[pass]

\* createOrUpdate: the renderer entered for an absent / a present actual state
createOrUpdate(actual) == IF actual = None THEN "create" ELSE "update"

\* Run, first step: CheckExisting decides whether Find is called at all
RunCheckExisting ==
    /\ pc = "CheckExisting"
    /\ \E ok \in BOOLEAN :
         IF ~Has(e, "Name")
         THEN pc' = "panic" /\ log' = log
         ELSE LET existing == CheckExisting(Listed(ok), e["Name"]) IN
              /\ pc' = IF existing THEN "Find" ELSE "Changes"
              /\ log' = Logged([Cur EXCEPT !.lists = @ + 1,
                                           !.listFailed = @ \/ ~ok,
                                           !.matches = IF ok THEN Matches(e["Name"]) ELSE @,
                                           !.existing = existing])
    /\ UNCHANGED <<desired, e, a, changes, pass, groups, cloud, group, attempt, sent>>
    /\ UNCHANGED graph

\* Run, second step: Find reads the actual state; its error ends the pass
RunFind ==
    /\ pc = "Find"
    /\ \E ok \in BOOLEAN :
         LET r == Find(cloud, e, Listed(ok))
             l == [Cur EXCEPT !.lists = @ + 1,
                              !.listFailed = @ \/ ~ok,
                              !.matches = IF ok THEN Matches(e["Name"]) ELSE @]
         IN  IF r.outcome = "ok"
             THEN /\ a' = r.actual
                  /\ pc' = "Changes"
                  /\ log' = Logged(l)
             ELSE /\ a' = a
                  /\ pc' = "failed"
                  /\ log' = Logged([l EXCEPT !.err = Error("find", "")])
    /\ UNCHANGED <<desired, e, changes, pass, groups, cloud, group, attempt, sent>>
    /\ UNCHANGED graph

\* Run, third step: the Delta, the precondition check, and the renderer to enter
RunChanges ==
    /\ pc = "Changes"
    /\ LET ch == BuildChanges(a, e) IN
       /\ changes' = ch
       /\ IF DOMAIN ch = {}
          THEN pc' = "done" /\ log' = Logged([Cur EXCEPT !.delta = ch])
          ELSE IF ~CheckChanges(a, e, ch)
          THEN /\ pc' = "failed"
               /\ log' = Logged([Cur EXCEPT !.delta = ch, !.err = Error("check", "")])
          ELSE /\ pc' = createOrUpdate(a)
               /\ log' = Logged([Cur EXCEPT !.delta = ch, !.entered = createOrUpdate(a)])
    /\ UNCHANGED <<desired, e, a, pass, groups, cloud, group, attempt, sent>>
    /\ UNCHANGED graph

\* create, before the retry loop: defaults are applied and the group is built
create ==
    /\ pc = "create"
    /\ e' = applyDefaults(e)
    /\ \E tagOrder \in Orders(MapOf(e, "Tags")),
          labelOrder \in Orders(MapOf(MapOf(e, "AutoScalerOpts"), "Labels")) :
         LET built == createGroup(cloud, applyDefaults(e), tagOrder, labelOrder) IN
         /\ group' = built.group
         /\ pc' = CASE built.outcome = "ok" -> "readyLoop"
                    [] built.outcome = "error" -> "failed"
                    [] OTHER -> "panic"
         /\ log' = IF built.outcome = "error"
                   THEN Logged([Cur EXCEPT !.err = Error("create", "")])
                   ELSE log
    /\ attempt' = 0
    /\ UNCHANGED <<desired, a, changes, pass, groups, cloud, sent>>
    /\ UNCHANGED graph

\* a retry loop that does not leave the loop when the Create call succeeds
readyLoopUnbroken ==
    /\ pc = "readyLoop"
    /\ attempt < MaxCreateCalls
    /\ attempt' = attempt + 1
    /\ sent' = [kind |-> "Create", group |-> group]
    /\ \E resp \in CreateResponses :
         LET hits == {i \in DOMAIN resp.messages : ContainsInvalidProfile(resp.messages[i])}
             first == CHOOSE i \in hits : \A j \in hits : i <= j
             l == [Cur EXCEPT !.creates = @ + 1,
                              !.created = resp.kind = "ok",
                              !.responses = @ \cup {IF hits # {} THEN "transient" ELSE resp.kind},
                              !.last = resp]
         IN
         CASE resp.kind = "ok" ->
                /\ e' = Put(e, "ID", GroupID(Len(groups) + 1))
                /\ groups' = ProviderCreate(groups, group)
                /\ pc' = "readyLoop"
                /\ log' = Logged(l)
           [] resp.kind = "Errors" /\ hits # {} ->
                /\ UNCHANGED <<e, groups>>
                /\ IF attempt' > maxAttempts
                   THEN /\ pc' = "failed"
                        /\ log' = Logged([l EXCEPT !.err = Error("create", resp.messages[first])])
                   ELSE /\ pc' = IF Has(e, "IAMInstanceProfile") THEN "readyLoop" ELSE "panic"
                        /\ log' = Logged(l)
           [] resp.kind = "Errors" /\ hits = {} ->
                /\ UNCHANGED <<e, groups>>
                /\ pc' = "failed"
                /\ log' = Logged([l EXCEPT !.err = Error("create", resp.messages)])
           [] OTHER ->
                /\ UNCHANGED <<e, groups>>
                /\ pc' = "readyLoop"
                /\ log' = Logged(l)
    /\ UNCHANGED <<desired, a, changes, pass, cloud, group>>
    /\ UNCHANGED graph

\* create, one iteration of the retry loop: one provider Create call and its handling
readyLoop ==
    /\ pc = "readyLoop"
    /\ attempt < MaxCreateCalls
    /\ attempt' = attempt + 1
    /\ sent' = [kind |-> "Create", group |-> group]
    /\ \E resp \in CreateResponses :
         LET hits == {i \in DOMAIN resp.messages : ContainsInvalidProfile(resp.messages[i])}
             first == CHOOSE i \in hits : \A j \in hits : i <= j
             l == [Cur EXCEPT !.creates = @ + 1,
                              !.created = resp.kind = "ok",
                              !.responses = @ \cup {IF hits # {} THEN "transient" ELSE resp.kind},
                              !.last = resp]
         IN
         CASE resp.kind = "ok" ->
                /\ e' = Put(e, "ID", GroupID(Len(groups) + 1))
                /\ groups' = ProviderCreate(groups, group)
                /\ pc' = "done"
                /\ log' = Logged(l)
           [] resp.kind = "Errors" /\ hits # {} ->
                /\ UNCHANGED <<e, groups>>
                /\ IF attempt' > maxAttempts
                   THEN /\ pc' = "failed"
                        /\ log' = Logged([l EXCEPT !.err = Error("create", resp.messages[first])])
                   ELSE /\ pc' = IF Has(e, "IAMInstanceProfile") THEN "readyLoop" ELSE "panic"
                        /\ log' = Logged(l)
           [] resp.kind = "Errors" /\ hits = {} ->
                /\ UNCHANGED <<e, groups>>
                /\ pc' = "failed"
                /\ log' = Logged([l EXCEPT !.err = Error("create", resp.messages)])
           [] OTHER ->
                /\ UNCHANGED <<e, groups>>
                /\ pc' = "readyLoop"
                /\ log' = Logged(l)
    /\ UNCHANGED <<desired, a, changes, pass, cloud, group>>
    /\ UNCHANGED graph

\* update: the live group is listed again, the request is built from the Delta and,
\* when anything was placed in it, sent with one provider Update call
RunUpdate ==
    /\ pc = "update"
    /\ \E ok \in BOOLEAN, accepted \in BOOLEAN,
          tagOrder \in Orders(MapOf(e, "Tags")),
          labelOrder \in Orders(MapOf(MapOf(e, "AutoScalerOpts"), "Labels")) :
         LET r == update(cloud, a, e, changes, Listed(ok), tagOrder, labelOrder)
             found == find(Listed(ok), e["Name"])
             l == [Cur EXCEPT !.lists = @ + 1,
                              !.found = found.outcome = "ok",
                              !.target = IF found.outcome = "ok"
                                         THEN Opt(found.out[1].f, "Capacity.Target") ELSE None]
         IN
         IF r.outcome # "ok"
         THEN /\ pc' = IF r.outcome = "error" THEN "failed" ELSE "panic"
              /\ log' = Logged([l EXCEPT !.err = IF r.outcome = "error"
                                                 THEN Error("update", "") ELSE @])
              /\ UNCHANGED <<changes, group, groups, sent>>
         ELSE /\ changes' = r.changes
              /\ group' = r.group
              /\ IF ~r.changed
                 THEN /\ pc' = "done"
                      /\ log' = Logged([l EXCEPT !.warning = DOMAIN r.changes # {}])
                      /\ UNCHANGED <<groups, sent>>
                 ELSE /\ sent' = [kind |-> "Update", group |-> r.group]
                      /\ groups' = IF accepted THEN ProviderUpdate(groups, r.group) ELSE groups
                      /\ pc' = IF accepted THEN "done" ELSE "failed"
                      /\ log' = Logged([l EXCEPT !.warning = DOMAIN r.changes # {},
                                                 !.updates = @ + 1,
                                                 !.err = IF accepted THEN @
                                                         ELSE Error("update", "provider")])
    /\ UNCHANGED <<desired, e, a, pass, cloud, attempt>>
    /\ UNCHANGED graph

\* what is kept of a finished pass
Summary(l) == [NewLog EXCEPT !.listFailed = l.listFailed, !.matches = l.matches,
                             !.existing = l.existing, !.created = l.created,
                             !.entered = l.entered, !.document = l.document,
                             !.updates = l.updates, !.err = Error(l.err.phase, "")]

\* the tool is run again on the same specification after a pass that succeeded
NextPass ==
    /\ pc = "done"
    /\ pass < MaxPasses
    /\ pass' = pass + 1
    /\ e' = desired
    /\ a' = None
    /\ changes' = Clear
    /\ pc' = "CheckExisting"
    /\ group' = EmptyGroup
    /\ attempt' = 0
    /\ sent' = NoRequest
    /\ log' = Append([log EXCEPT ![pass] = Summary(@)], NewLog)
    /\ UNCHANGED <<desired, groups, cloud>>
    /\ UNCHANGED graph

\* Run under the Terraform target: the pass that reaches a renderer emits the document
\* of the task; nothing is sent to the provider
RunRenderTerraform ==
    /\ pc \in {"create", "update"}
    /\ e' = applyDefaults(e)
    /\ \E roleOrder \in Orders(MapOf(e, "Tags")),
          tagOrder \in Orders(MapOf(e, "Tags")),
          labelOrder \in Orders(MapOf(MapOf(e, "AutoScalerOpts"), "Labels")) :
         LET r == RenderTerraform(cloud, a, e, changes, roleOrder, tagOrder, labelOrder) IN
         /\ pc' = CASE r.outcome = "ok" -> "done"
                    [] r.outcome = "error" -> "failed"
                    [] OTHER -> "panic"
         /\ log' = Logged([Cur EXCEPT
                             !.entered = "terraform",
                             !.document = IF r.outcome = "ok"
                                          THEN Some([resource |-> r.resource,
                                                     outputs |-> r.outputs,
                                                     files |-> r.files])
                                          ELSE None,
                             !.err = IF r.outcome = "error"
                                     THEN Error("terraform", "") ELSE @])
    /\ UNCHANGED <<desired, a, changes, pass, groups, cloud, group, attempt, sent>>
    /\ UNCHANGED graph

Next ==
    \/ RunCheckExisting
    \/ RunFind
    \/ RunChanges
    \/ create
    \/ readyLoop
    \/ RunUpdate
    \/ NextPass

Spec == Init /\ [][Next]_vars

\* the same passes with the Terraform target selected
InitTerraform ==
    /\ desired \in DesiredSpecs \cup {Apply(Base, v) : v \in EmissionVariants}
    /\ e = desired
    /\ a = None
    /\ changes = Clear
    /\ pc = "CheckExisting"
    /\ pass = 1
    /\ groups \in InitialGroups(desired)
    /\ cloud \in Clouds(desired)
    /\ group = EmptyGroup
    /\ attempt = 0
    /\ sent = NoRequest
    /\ log = <<NewLog>>
    /\ NoGraph

NextTerraform ==
    \/ RunCheckExisting
    \/ RunFind
    \/ RunChanges
    \/ RunRenderTerraform
    \/ NextPass

SpecTerraform == InitTerraform /\ [][NextTerraform]_vars

\* update called on its own: on a specification whose group the provider lists, with the
\* actual state Find reads from it, and with the Delta of the two or an empty Delta
InitUpdate ==
    /\ desired \in DesiredSpecs
    /\ e = desired
    /\ cloud \in Clouds(desired)
    /\ groups \in {gs \in InitialGroups(desired) :
                     Has(desired, "Name") /\ Find(cloud, desired, Some(gs)).outcome = "ok"}
    /\ a = Find(cloud, desired, Some(groups)).actual
    /\ changes \in {Clear, BuildChanges(a, desired)}
    /\ pc = "update"
    /\ pass = 1
    /\ group = EmptyGroup
    /\ attempt = 0
    /\ sent = NoRequest
    /\ log = <<[NewLog EXCEPT !.lists = 2, !.matches = Matches(desired["Name"]),
                              !.existing = TRUE, !.delta = changes, !.entered = "update"]>>
    /\ NoGraph

NextUpdate == RunUpdate

SpecUpdate == InitUpdate /\ [][NextUpdate]_vars

----------------------------------------------------------------------------
(* The task graph and the executor *)

\* fi.FindDependencies: the tasks referenced from inside a resource
FindDependencies(all, resource) ==
    CASE resource = "#!/bin/bash # ca" -> <<"ca">>
      [] OTHER -> <<>>

\* the tasks a field refers to: none when it is nil, the elements of a slice
Refs(t, f) ==
    IF ~Has(t, f) THEN <<>>
    ELSE IF f \in {"Subnets", "SecurityGroups"} THEN t[f]
    ELSE <<t[f]>>

\* a dependency query that does not look into the UserData resource
GetDependenciesDeclared(all, t) ==
    Refs(t, "IAMInstanceProfile") \o Refs(t, "LoadBalancer") \o Refs(t, "SSHKey")
        \o Refs(t, "Subnets") \o Refs(t, "SecurityGroups")

\* Elastigroup.GetDependencies: the names of the tasks returned, in the order appended
GetDependencies(all, t) ==
    Refs(t, "IAMInstanceProfile") \o Refs(t, "LoadBalancer") \o Refs(t, "SSHKey")
        \o Refs(t, "Subnets") \o Refs(t, "SecurityGroups")
        \o (IF Has(t, "UserData") THEN FindDependencies(all, t["UserData"]) ELSE <<>>)

Names(all) == {all[i].name : i \in DOMAIN all}

\* the dependency query of a task
Dependencies(all, task) ==
    IF task.kind = "Elastigroup" THEN Range(GetDependencies(all, task.spec)) ELSE task.deps

\* the index of the first task, in declaration order, that is not placed yet and has
\* every dependency placed; 0 when there is none
FirstReady(all, placed) ==
    LET ready == {i \in DOMAIN all : /\ all[i].name \notin Range(placed)
                                     /\ Dependencies(all, all[i]) \subseteq Range(placed)}
    IN  IF ready = {} THEN 0 ELSE CHOOSE i \in ready : \A j \in ready : i <= j

\* a topological sort that hands out what it placed when no task is ready
RECURSIVE TopologicalSortPartial(_, _)
TopologicalSortPartial(all, placed) ==
    IF Len(placed) = Len(all) THEN [outcome |-> "ok", order |-> placed]
    ELSE IF FirstReady(all, placed) = 0 THEN [outcome |-> "ok", order |-> placed]
    ELSE TopologicalSortPartial(all, Append(placed, all[FirstReady(all, placed)].name))

\* the topological sort (Kahn's algorithm, ties broken by declaration order): the order,
\* or the failure on a cycle, without any order
RECURSIVE TopologicalSort(_, _)
TopologicalSort(all, placed) ==
    IF Len(placed) = Len(all) THEN [outcome |-> "ok", order |-> placed]
    ELSE IF FirstReady(all, placed) = 0 THEN [outcome |-> "cycle", order |-> <<>>]
    ELSE TopologicalSort(all, Append(placed, all[FirstReady(all, placed)].name))

\* the dependencies that are no task of the set
Unresolved(all) ==
    UNION {Dependencies(all, all[i]) : i \in DOMAIN all} \ Names(all)

\* the task graph builder: a reference to a task absent from the set is fatal, and so
\* is a cycle
BuildGraph(all) ==
    IF Unresolved(all) # {} THEN [outcome |-> "unresolved", order |-> <<>>]
    ELSE TopologicalSort(all, <<>>)

\* the Elastigroup specifications of the task sets
GraphSpecs ==
    {Apply(Base, v) :
        v \in {V(Clear, {}), V(Clear, {"IAMInstanceProfile"}), V(Clear, {"SSHKey"}),
               V([LoadBalancer |-> "api"], {}),
               V([UserData |-> "#!/bin/bash"], {}),
               V([UserData |-> "#!/bin/bash # ca"], {}),
               V([UserData |-> "#!/bin/bash # ca", LoadBalancer |-> "api"], {})}}

\* the subsequence of the names that are not dropped
RECURSIVE Without(_, _)
Without(names, dropped) ==
    IF names = <<>> THEN <<>>
    ELSE IF Head(names) \in dropped THEN Without(Tail(names), dropped)
    ELSE <<Head(names)>> \o Without(Tail(names), dropped)

\* a task set in its declaration order: the Elastigroup with its specification, the
\* tasks of another kind with the dependencies they declare
TaskSet(t, declared, deps) ==
    [i \in DOMAIN declared |->
        IF declared[i] = "nodes"
        THEN [name |-> "nodes", kind |-> "Elastigroup", spec |-> t, deps |-> {}]
        ELSE [name |-> declared[i], kind |-> "Task", spec |-> Clear,
              deps |-> IF declared[i] \in DOMAIN deps THEN deps[declared[i]] ELSE {}]]

\* two declaration orders, the dependencies the other tasks may declare, and a task
\* that may be missing from the set
TaskSets ==
    {TaskSet(t, Without(declared, dropped), deps) :
        t \in GraphSpecs,
        declared \in {<<"consumer", "nodes", "api", "nodes-profile", "admin-key",
                        "subnet-a", "subnet-b", "sg-nodes", "ca">>,
                      <<"ca", "sg-nodes", "subnet-b", "subnet-a", "admin-key",
                        "nodes-profile", "api", "nodes", "consumer">>},
        deps \in [consumer : {{"nodes"}}, api : {{}, {"subnet-a"}, {"consumer"}},
                  ca : {{}, {"nodes"}}],
        dropped \in {{}, {"admin-key"}, {"ca"}}}

InitGraph ==
    /\ tasks \in TaskSets
    /\ ordering = <<>>
    /\ stage = "build"
    /\ status = [n \in Names(tasks) |-> "pending"]
    /\ desired = Base
    /\ e = desired
    /\ a = None
    /\ changes = Clear
    /\ pc = "CheckExisting"
    /\ pass = 1
    /\ groups = <<>>
    /\ cloud = PriorCloud
    /\ group = EmptyGroup
    /\ attempt = 0
    /\ sent = NoRequest
    /\ log = <<NewLog>>

\* the graph builder runs before any task does
Build ==
    /\ stage = "build"
    /\ ordering' = BuildGraph(tasks).order
    /\ stage' = IF BuildGraph(tasks).outcome = "ok" THEN "run" ELSE "failed"
    /\ UNCHANGED <<tasks, status>>
    /\ UNCHANGED reconcile

\* the executor loop: the position of the first task of the order not dealt with yet
Position ==
    IF \A i \in DOMAIN ordering : status[ordering[i]] \in {"rendered", "failed"}
    THEN 0
    ELSE CHOOSE i \in DOMAIN ordering :
            /\ status[ordering[i]] \notin {"rendered", "failed"}
            /\ \A j \in 1..(i - 1) : status[ordering[j]] \in {"rendered", "failed"}

\* an executor that goes on with the next task after a failure
StageAfterKeepGoing(ok, last) == IF last THEN "finished" ELSE "run"

\* where the run stands after a step of a task: a failure ends it
StageAfter(ok, last) ==
    IF ~ok THEN "aborted" ELSE IF last THEN "finished" ELSE "run"

\* the executor finds the task at the position
FindTask ==
    /\ stage = "run"
    /\ Position # 0
    /\ status[ordering[Position]] = "pending"
    /\ \E ok \in BOOLEAN :
         /\ status' = [status EXCEPT ![ordering[Position]] = IF ok THEN "found" ELSE "failed"]
         /\ stage' = StageAfter(ok, FALSE)
    /\ UNCHANGED <<tasks, ordering>>
    /\ UNCHANGED reconcile

\* the executor validates the preconditions of the task it found
CheckTask ==
    /\ stage = "run"
    /\ Position # 0
    /\ status[ordering[Position]] = "found"
    /\ \E ok \in BOOLEAN :
         /\ status' = [status EXCEPT ![ordering[Position]] = IF ok THEN "checked" ELSE "failed"]
         /\ stage' = StageAfter(ok, FALSE)
    /\ UNCHANGED <<tasks, ordering>>
    /\ UNCHANGED reconcile

\* the executor renders the task it validated; the last task of the order ends the run
RenderTask ==
    /\ stage = "run"
    /\ Position # 0
    /\ status[ordering[Position]] = "checked"
    /\ \E ok \in BOOLEAN :
         /\ status' = [status EXCEPT ![ordering[Position]] = IF ok THEN "rendered" ELSE "failed"]
         /\ stage' = StageAfter(ok, Position = Len(ordering))
    /\ UNCHANGED <<tasks, ordering>>
    /\ UNCHANGED reconcile

NextGraph ==
    \/ Build
    \/ FindTask
    \/ CheckTask
    \/ RenderTask

SpecGraph == InitGraph /\ [][NextGraph]_vars

----------------------------------------------------------------------------
(* Properties *)

RootMappingPath == "Compute.LaunchSpecification.BlockDeviceMappings"
Terminal == pc \in {"done", "failed", "panic"}
Rendering == pc \notin {"CheckExisting", "Find", "Changes"}

\* C1: idempotence across passes. When pass 1 found no group (its List succeeded and no
\* listed group had the name) and created it, then in pass 2, with the provider
\* answering, discovery finds the group, the Delta is empty and no Create or Update
\* call is issued.
C1_IdempotentSecondPass ==
    (pass = 2 /\ log[1].created /\ ~log[1].listFailed /\ log[1].matches = 0
        /\ ~Cur.listFailed /\ Rendering)
    => (Cur.existing /\ DOMAIN Cur.delta = {} /\ Cur.creates = 0 /\ Cur.updates = 0)

\* C2: retry bound. While every Create answer is the transient IAM instance profile
\* error, the attempt counter stays within maxAttempts, and when create gives up it has
\* made exactly maxAttempts Create calls and returns the last error observed.
C2_RetryBound ==
    (~Cur.listFailed /\ Cur.responses = {"transient"})
    => /\ attempt <= maxAttempts
       /\ pc = "failed" =>
            /\ Cur.creates = maxAttempts
            /\ \E i \in DOMAIN Cur.last.messages : Cur.err.cause = Cur.last.messages[i]

\* C3: no retry on a non-transient error. After a Create answer that is an error without
\* the transient pattern, of whatever shape, create has returned an error: it is not
\* about to call Create again.
C3_NoRetryOnOtherErrors ==
    (~Cur.listFailed /\ Cur.last.kind \in {"Errors", "error"}
        /\ \A i \in DOMAIN Cur.last.messages : ~ContainsInvalidProfile(Cur.last.messages[i]))
    => pc = "failed"

\* C4: absence signals the create path. When List succeeded and no listed group has the
\* task's name, discovery raises no error (Find is not even called, no actual state) and
\* the renderer the pass enters is create.
C4_AbsenceDispatchesCreate ==
    (Cur.lists >= 1 /\ ~Cur.listFailed /\ Cur.matches = 0)
    => /\ ~Cur.existing
       /\ pc # "Find"
       /\ a = None
       /\ Cur.err.phase \notin {"find", "check"}
       /\ Rendering => Cur.entered = "create"

\* C4 witness: a provider that lists only a group of another name, and the pass in
\* create's retry loop
C4_Witness ==
    /\ pc = "readyLoop"
    /\ Cur.lists = 1 /\ ~Cur.listFailed /\ Cur.matches = 0
    /\ Len(groups) = 1
    /\ Cur.entered = "create"

\* C5: a List error during discovery is fatal. Once a List call of CheckExisting or Find
\* has failed, no Create and no Update call is issued in the pass and the pass does not
\* succeed.
C5_ListErrorIsFatal ==
    Cur.listFailed => (Cur.creates = 0 /\ Cur.updates = 0 /\ pc # "done")

\* C6: ambiguous discovery is fatal. When List returned two or more groups with the
\* task's name, discovery hands no actual state on, no renderer is entered and no Create
\* or Update call is issued.
C6_AmbiguousDiscoveryIsFatal ==
    (Cur.matches >= 2)
    => (a = None /\ Cur.entered = "none" /\ Cur.creates = 0 /\ Cur.updates = 0)

\* C7: precondition validation. A renderer is entered only with Name, MinSize and
\* MaxSize set on the desired specification.
C7_RenderedOnlyWithIdentityAndCapacity ==
    (~Cur.listFailed /\ Cur.entered # "none")
    => (Has(desired, "Name") /\ Has(desired, "MinSize") /\ Has(desired, "MaxSize"))

\* C8: target capacity on update. The Update request carries Minimum (Maximum) exactly
\* when MinSize (MaxSize) is in the Delta, and carries Target exactly when MinSize is in
\* the Delta and the live Target is below the desired MinSize; Target then is MinSize.
C8_TargetRaisedWithMinSize ==
    (sent.kind = "Update")
    => LET f == sent.group.f
           raise == Has(Cur.delta, "MinSize") /\ Cur.target # None
                    /\ Cur.target[1] < e["MinSize"]
       IN  /\ Has(f, "Capacity.Minimum") <=> Has(Cur.delta, "MinSize")
           /\ Has(f, "Capacity.Maximum") <=> Has(Cur.delta, "MaxSize")
           /\ Has(f, "Capacity.Target") <=> raise
           /\ Has(f, "Capacity.Minimum") => f["Capacity.Minimum"] = e["MinSize"]
           /\ Has(f, "Capacity.Maximum") => f["Capacity.Maximum"] = e["MaxSize"]
           /\ Has(f, "Capacity.Target") => f["Capacity.Target"] = e["MinSize"]

\* C8 witness: desired {Min 5, Max 5} against a live group {Min 2, Max 4, Target 4}:
\* the request carries Minimum 5, Maximum 5 and Target 5
C8_Witness ==
    /\ sent.kind = "Update"
    /\ Cur.delta = [MinSize |-> 5, MaxSize |-> 5]
    /\ Cur.target = Some(4)
    /\ sent.group.f["Capacity.Minimum"] = 5
    /\ sent.group.f["Capacity.Maximum"] = 5
    /\ sent.group.f["Capacity.Target"] = 5

\* C9: field legality by volume type. In the root block-device mapping of every request
\* sent, IOPS is absent when the desired root volume type is gp2, and Throughput is
\* present only when it is gp3.
C9_VolumeFieldsLegalForType ==
    (sent.kind # "none" /\ Has(sent.group.f, RootMappingPath) /\ Has(desired, "RootVolumeOpts"))
    => LET ebs == sent.group.f[RootMappingPath][1]["EBS"]
           type == StringValue(Opt(desired["RootVolumeOpts"], "Type"))
       IN  /\ type = "gp2" => ~Has(ebs, "IOPS")
           /\ Has(ebs, "Throughput") => type = "gp3"

\* C10: load-balancer ambiguity is fatal. When the renderer has to place the desired
\* load balancer and its name resolves to a classic and to a network load balancer, no
\* request is sent and the pass does not succeed.
C10_LoadBalancerAmbiguityIsFatal ==
    (Has(Cur.delta, "LoadBalancer")
        /\ FindELBByNameTag(cloud, desired["LoadBalancer"]) # None
        /\ FindELBV2ByNameTag(cloud, desired["LoadBalancer"]) # None)
    => (sent.kind = "none" /\ pc # "done")

----------------------------------------------------------------------------
(* Properties of the Update request *)

UpdateSent == Terminal /\ Cur.entered = "update" /\ Cur.updates = 1 /\ sent.kind = "Update"

\* the Delta field each request field carries the value of (the group's ID, the Target
\* that follows MinSize and the IsAutoConfig flag derived from the headroom have none)
FieldOrigin ==
    [x \in {"Region"} |-> <<"Region">>] @@
    ("Strategy.Risk" :> <<"SpotPercentage">>) @@
    ("Strategy.AvailabilityVsCost" :> <<"Orientation">>) @@
    ("Strategy.FallbackToOnDemand" :> <<"FallbackToOnDemand">>) @@
    ("Strategy.UtilizeReservedInstances" :> <<"UtilizeReservedInstances">>) @@
    ("Strategy.DrainingTimeout" :> <<"DrainingTimeout">>) @@
    ("Compute.Product" :> <<"Product">>) @@
    ("Compute.InstanceTypes.OnDemand" :> <<"OnDemandInstanceType">>) @@
    ("Compute.InstanceTypes.Spot" :> <<"SpotInstanceTypes">>) @@
    ("Compute.SubnetIDs" :> <<"Subnets">>) @@
    ("Compute.LaunchSpecification.SecurityGroupIDs" :> <<"SecurityGroups">>) @@
    ("Compute.LaunchSpecification.UserData" :> <<"UserData">>) @@
    ("Compute.LaunchSpecification.NetworkInterfaces" :> <<"AssociatePublicIP">>) @@
    ("Compute.LaunchSpecification.BlockDeviceMappings" :> <<"RootVolumeOpts">>) @@
    ("Compute.LaunchSpecification.EBSOptimized" :> <<"RootVolumeOpts", "Optimization">>) @@
    ("Compute.LaunchSpecification.ImageID" :> <<"ImageID">>) @@
    ("Compute.LaunchSpecification.Tags" :> <<"Tags">>) @@
    ("Compute.LaunchSpecification.IAMInstanceProfile" :> <<"IAMInstanceProfile">>) @@
    ("Compute.LaunchSpecification.Monitoring" :> <<"Monitoring">>) @@
    ("Compute.LaunchSpecification.KeyPair" :> <<"SSHKey">>) @@
    ("Compute.LaunchSpecification.LoadBalancersConfig" :> <<"LoadBalancer">>) @@
    ("Compute.LaunchSpecification.Tenancy" :> <<"Tenancy">>) @@
    ("Compute.LaunchSpecification.HealthCheckType" :> <<"HealthCheckType">>) @@
    ("Capacity.Minimum" :> <<"MinSize">>) @@
    ("Capacity.Maximum" :> <<"MaxSize">>) @@
    ("Integration.Kubernetes.AutoScale.IsEnabled" :> <<"AutoScalerOpts", "Enabled">>) @@
    ("Integration.Kubernetes.AutoScale.Cooldown" :> <<"AutoScalerOpts", "Cooldown">>) @@
    ("Integration.Kubernetes.AutoScale.Headroom" :> <<"AutoScalerOpts", "Headroom">>) @@
    ("Integration.Kubernetes.AutoScale.Down" :> <<"AutoScalerOpts", "Down">>) @@
    ("Integration.Kubernetes.AutoScale.Labels" :> <<"AutoScalerOpts", "Labels">>)

\* the names the headroom and scale-down values have in the options
ValueOrigin ==
    [CPUPerUnit |-> "CPUPerUnit", GPUPerUnit |-> "GPUPerUnit", MemoryPerUnit |-> "MemPerUnit",
     NumOfUnits |-> "NumOfUnits", MaxScaleDownPercentage |-> "MaxPercentage",
     EvaluationPeriods |-> "EvaluationPeriods"]

\* the field at the path p is populated in the Delta d
InDelta(d, p) ==
    /\ Has(d, p[1])
    /\ Len(p) >= 2 => Has(d[p[1]], p[2])
    /\ Len(p) >= 3 => Has(d[p[1]][p[2]], p[3])

\* the values of the nested structure sent at the path come from populated sub-fields
ValuesInDelta(d, f, path) ==
    Has(f, path) =>
        \A k \in DOMAIN f[path] : InDelta(d, Append(FieldOrigin[path], ValueOrigin[k]))

\* C14: sparse transmission. Every field value of an Update request belongs to a field
\* populated in the Delta (the Target that follows MinSize apart); for the autoscaler,
\* the Cooldown, each headroom value, each scale-down value and the labels are sent only
\* when that sub-field is populated in the Delta.
C14_SparseTransmission ==
    UpdateSent =>
        /\ \A p \in DOMAIN sent.group.f \cap DOMAIN FieldOrigin :
             InDelta(Cur.delta, FieldOrigin[p])
        /\ ValuesInDelta(Cur.delta, sent.group.f, "Integration.Kubernetes.AutoScale.Headroom")
        /\ ValuesInDelta(Cur.delta, sent.group.f, "Integration.Kubernetes.AutoScale.Down")

\* the Delta fields whose values a nested structure of the request holds
StructFields ==
    [Strategy |-> {"SpotPercentage", "Orientation", "FallbackToOnDemand",
                   "UtilizeReservedInstances", "DrainingTimeout"},
     Capacity |-> {"MinSize", "MaxSize"},
     Integration |-> {"AutoScalerOpts"}] @@
    ("Integration.Kubernetes.AutoScale" :> {"AutoScalerOpts"}) @@
    ("Compute.InstanceTypes" :> {"OnDemandInstanceType", "SpotInstanceTypes"}) @@
    ("Compute.LaunchSpecification" :>
        {"SecurityGroups", "UserData", "AssociatePublicIP", "RootVolumeOpts", "ImageID",
         "Tags", "IAMInstanceProfile", "Monitoring", "SSHKey", "LoadBalancer", "Tenancy",
         "HealthCheckType"}) @@
    ("Compute" :>
        {"Product", "OnDemandInstanceType", "SpotInstanceTypes", "Subnets",
         "SecurityGroups", "UserData", "AssociatePublicIP", "RootVolumeOpts", "ImageID",
         "Tags", "IAMInstanceProfile", "Monitoring", "SSHKey", "LoadBalancer", "Tenancy",
         "HealthCheckType"})

\* C15: nested structures on demand. A nested structure (Strategy, Compute,
\* Compute.InstanceTypes, Compute.LaunchSpecification, Capacity, Integration) is present
\* in an Update request only if the Delta populates a field of that structure.
C15_NestedStructuresOnDemand ==
    UpdateSent =>
        \A st \in sent.group.structs :
            /\ st \in DOMAIN StructFields
            /\ StructFields[st] \cap DOMAIN Cur.delta # {}

\* an Update request with the instance types allocated for a changed instance type, and
\* neither Strategy nor Capacity nor Integration
C15_Witness ==
    /\ UpdateSent
    /\ Has(Cur.delta, "OnDemandInstanceType")
    /\ sent.group.structs = {"Compute", "Compute.InstanceTypes"}

\* the values placed in a request: its fields apart from the ID, and the fields nulled
Placed(g) == (DOMAIN g.f \ {"ID"}) \cup g.nulls

Processed ==
    /\ Terminal /\ Cur.entered = "update" /\ Cur.found
    /\ pc # "panic"
    /\ Cur.err \in {NoError, Error("update", "provider")}

\* the desired load balancer is in the Delta and resolves to neither kind
LoadBalancerGap == Has(Cur.delta, "LoadBalancer") /\ ~cloud.elb /\ ~cloud.nlb

\* C17: coverage gaps are not fatal. A Delta field update leaves populated (the
\* LoadBalancer whose name resolves to neither kind) makes update warn and go on: the
\* Update request for the handled fields is still sent, and update returns success when
\* the provider accepts it. The warning is given exactly when a Delta field remains
\* populated.
C17_CoverageGapsNotFatal ==
    /\ (Terminal /\ Cur.entered = "update" /\ Cur.found /\ LoadBalancerGap) =>
          (Processed /\ Cur.warning /\ Has(changes, "LoadBalancer"))
    /\ Processed =>
          /\ Cur.warning <=> (DOMAIN changes # {})
          /\ DOMAIN changes \subseteq DOMAIN Cur.delta
          /\ Placed(group) # {} => (Cur.updates = 1 /\ sent.group = group)
          /\ Cur.err = NoError => pc = "done"

\* update has warned about the load balancer left in the Delta, sent the Update request
\* with the changed maximum, and returned success
C17_Witness ==
    /\ Processed /\ LoadBalancerGap
    /\ Cur.warning
    /\ DOMAIN changes = {"LoadBalancer"}
    /\ Cur.updates = 1
    /\ Has(sent.group.f, "Capacity.Maximum")
    /\ pc = "done"

----------------------------------------------------------------------------
(* Properties of the emitted document *)

Emitting == Cur.entered = "terraform" /\ Terminal

\* the derived values of a request built by create: the image id, the root device and
\* the ephemeral devices, nothing when create ended before placing them
DerivedOfCreate(d) ==
    IF d.outcome # "ok" THEN [image |-> None, root |-> None, ephemeral |-> <<>>]
    ELSE [image |-> d.image,
          root |-> Some([name |-> Opt(d.mappings[1], "DeviceName"),
                         type |-> Opt(d.mappings[1]["EBS"], "VolumeType"),
                         size |-> Opt(d.mappings[1]["EBS"], "VolumeSize"),
                         iops |-> Opt(d.mappings[1]["EBS"], "IOPS"),
                         throughput |-> Opt(d.mappings[1]["EBS"], "Throughput")]),
          ephemeral |-> [i \in 1..(Len(d.mappings) - 1) |->
                            [name |-> Opt(d.mappings[i + 1], "DeviceName"),
                             virtual |-> Opt(d.mappings[i + 1], "VirtualName")]]]

\* the same values of an emitted document, nothing when none was emitted
DerivedOfDocument(doc) ==
    IF doc = None THEN [image |-> None, root |-> None, ephemeral |-> <<>>]
    ELSE [image |-> Opt(doc[1].resource, "ImageID"),
          root |-> IF ~Has(doc[1].resource, "RootBlockDevice") THEN None
                   ELSE Some([name |-> Opt(doc[1].resource["RootBlockDevice"], "DeviceName"),
                              type |-> Opt(doc[1].resource["RootBlockDevice"], "VolumeType"),
                              size |-> Opt(doc[1].resource["RootBlockDevice"], "VolumeSize"),
                              iops |-> Opt(doc[1].resource["RootBlockDevice"], "VolumeIOPS"),
                              throughput |->
                                Opt(doc[1].resource["RootBlockDevice"], "VolumeThroughput")]),
          ephemeral |-> IF ~Has(doc[1].resource, "EphemeralBlockDevice") THEN <<>>
                        ELSE [i \in DOMAIN doc[1].resource["EphemeralBlockDevice"] |->
                                [name |-> Opt(doc[1].resource["EphemeralBlockDevice"][i],
                                              "DeviceName"),
                                 virtual |-> Opt(doc[1].resource["EphemeralBlockDevice"][i],
                                                 "VirtualName")]]]

\* C11: renderer parity. When RenderTerraform has run on a specification, the image id,
\* the root device (name, type, size, IOPS, throughput) and the ephemeral devices it
\* emitted are those create's block-device and image section derives from the same
\* specification and resolvers: both produce each of them or both omit it.  (A
\* specification with two role tags, for which RenderTerraform emits nothing at all, is
\* left aside.)
C11_RendererParity ==
    (Emitting /\ Cardinality(roleSuffixes(MapOf(desired, "Tags"))) <= 1) =>
        DerivedOfDocument(Cur.document)
            = DerivedOfCreate(createBlockDevicesAndImage(applyDefaults(desired)))

\* C12: deterministic emission. Two invocations of RenderTerraform on the same desired
\* specification, with the same resolver results, hand the same document to the
\* target, the order of the tag entries and of the autoscaler label entries included.
C12_DeterministicEmission ==
    (pass = 2 /\ Emitting /\ log[1].entered = "terraform") =>
        Cur.document = log[1].document

\* the cross-task references of a resource block are the deferred tokens of the tasks the
\* specification t refers to
DeferredReferences(resource, t) ==
    /\ Opt(resource, "SubnetIDs")
         = (IF Has(t, "Subnets") THEN Some(TerraformLinks("aws_subnet", t["Subnets"]))
            ELSE None)
    /\ Opt(resource, "SecurityGroups")
         = (IF Has(t, "SecurityGroups")
            THEN Some(TerraformLinks("aws_security_group", t["SecurityGroups"])) ELSE None)
    /\ Opt(resource, "IAMInstanceProfile")
         = (IF Has(t, "IAMInstanceProfile")
            THEN Some(TerraformLink("aws_iam_instance_profile", t["IAMInstanceProfile"]))
            ELSE None)
    /\ Opt(resource, "KeyName")
         = (IF Has(t, "SSHKey") THEN Some(TerraformLink("aws_key_pair", t["SSHKey"]))
            ELSE None)
    /\ Opt(resource, "LoadBalancers")
         = (IF Has(t, "LoadBalancer") THEN Some(<<TerraformLink("aws_elb", t["LoadBalancer"])>>)
            ELSE None)

\* the document of an invocation of RenderTerraform on the desired specification with
\* no actual state, the Delta being the whole specification
EmittedWithoutActual(tagOrder, labelOrder) ==
    RenderTerraform(cloud, None, desired, BuildChanges(None, desired), tagOrder, tagOrder,
                    labelOrder)

\* C13: emission ignores the actual state and the Delta. The document RenderTerraform
\* emits for a specification with an actual state found is the document it emits for
\* the same specification without actual state (the Delta then being the whole
\* specification), and each reference to a subnet, security group, IAM profile, SSH key
\* or load balancer in it is the deferred token of the referenced task.
C13_EmissionIgnoresActualAndDelta ==
    (Emitting /\ a # None /\ Cur.document # None) =>
        /\ DeferredReferences(Cur.document[1].resource, desired)
        /\ \A tagOrder \in Orders(MapOf(desired, "Tags")),
              labelOrder \in Orders(MapOf(MapOf(desired, "AutoScalerOpts"), "Labels")) :
             /\ EmittedWithoutActual(tagOrder, labelOrder).outcome = "ok"
             /\ EmittedWithoutActual(tagOrder, labelOrder).resource
                  = Cur.document[1].resource
             /\ EmittedWithoutActual(tagOrder, labelOrder).outputs
                  = Cur.document[1].outputs
             /\ EmittedWithoutActual(tagOrder, labelOrder).files = Cur.document[1].files

----------------------------------------------------------------------------
(* Properties of the task graph *)

\* the place of a task in the execution order, 0 when it has none
OrderIndex(n) ==
    IF n \in Range(ordering) THEN CHOOSE i \in DOMAIN ordering : ordering[i] = n ELSE 0

\* the tasks a task reaches over one or more dependency queries
RECURSIVE Reaches(_, _, _)
Reaches(all, seen, k) ==
    IF k = 0 THEN seen
    ELSE Reaches(all,
                 seen \cup UNION {Dependencies(all, all[i]) :
                                    i \in {j \in DOMAIN all : all[j].name \in seen}},
                 k - 1)

Cyclic(all) ==
    \E i \in DOMAIN all : all[i].name \in Reaches(all, Dependencies(all, all[i]), Len(all))

OrderProduced == stage \in {"run", "aborted", "finished"}

\* C18: once the graph is built, an acyclic task set whose references all resolve has an
\* order holding every task exactly once with every task returned by a task's dependency
\* query earlier than that task; a cyclic task set fails construction, with no order, not
\* even a partial one, and no task found or rendered
C18_OrderCorrectness ==
    stage # "build" =>
        /\ (~Cyclic(tasks) /\ Unresolved(tasks) = {}) =>
              /\ OrderProduced
              /\ Len(ordering) = Len(tasks)
              /\ Range(ordering) = Names(tasks)
              /\ \A i \in DOMAIN tasks : \A d \in Dependencies(tasks, tasks[i]) :
                    /\ OrderIndex(d) > 0
                    /\ OrderIndex(d) < OrderIndex(tasks[i].name)
        /\ Cyclic(tasks) =>
              /\ stage = "failed"
              /\ ordering = <<>>
              /\ \A n \in Names(tasks) : status[n] = "pending"

\* a finished run where the order had to move tasks declared later to the front:
\* subnet-a before api before nodes before consumer
C18_Witness ==
    /\ stage = "finished"
    /\ tasks[1].name = "consumer"
    /\ OrderIndex("subnet-a") > 0
    /\ OrderIndex("subnet-a") < OrderIndex("api")
    /\ OrderIndex("api") < OrderIndex("nodes")
    /\ OrderIndex("nodes") < OrderIndex("consumer")
    /\ \A n \in Names(tasks) : status[n] = "rendered"

\* the Elastigroup of the task set
TheElastigroup == CHOOSE task \in Range(tasks) : task.kind = "Elastigroup"

\* the tasks that declare the Elastigroup as a dependency
Dependents == {task \in Range(tasks) : "nodes" \in Dependencies(tasks, task)}

\* C19: the dependency query of the Elastigroup returns its IAMInstanceProfile,
\* LoadBalancer and SSHKey when set, every Subnet, every SecurityGroup and the task its
\* UserData resource embeds; and in a produced order the embedded task comes before the
\* Elastigroup, which comes before every task that depends on it
C19_DiscoveryCompleteAndTransitive ==
    /\ \A f \in {"IAMInstanceProfile", "LoadBalancer", "SSHKey"} :
          Has(TheElastigroup.spec, f) =>
              TheElastigroup.spec[f] \in Dependencies(tasks, TheElastigroup)
    /\ \A f \in {"Subnets", "SecurityGroups"} :
          Has(TheElastigroup.spec, f) =>
              Range(TheElastigroup.spec[f]) \subseteq Dependencies(tasks, TheElastigroup)
    /\ (Has(TheElastigroup.spec, "UserData")
            /\ TheElastigroup.spec["UserData"] = "#!/bin/bash # ca") =>
          /\ "ca" \in Dependencies(tasks, TheElastigroup)
          /\ OrderProduced =>
                /\ OrderIndex("ca") > 0
                /\ OrderIndex("ca") < OrderIndex("nodes")
                /\ \A task \in Dependents : OrderIndex("nodes") < OrderIndex(task.name)

\* a task set that declares the embedded task last and the dependent task first, run to
\* the end: ca, then nodes, then consumer
C19_Witness ==
    /\ stage = "finished"
    /\ tasks[1].name = "consumer"
    /\ tasks[Len(tasks)].name = "ca"
    /\ Has(TheElastigroup.spec, "UserData")
    /\ TheElastigroup.spec["UserData"] = "#!/bin/bash # ca"
    /\ Has(TheElastigroup.spec, "LoadBalancer")
    /\ Dependents # {}
    /\ OrderIndex("ca") < OrderIndex("nodes")
    /\ OrderIndex("nodes") < OrderIndex("consumer")

\* the tasks of the order in the given statuses
InStatus(set) == {i \in DOMAIN ordering : status[ordering[i]] \in set}

\* C20: the tasks of a pass are processed one at a time in the order: every task before
\* one that was touched is rendered, and a task is touched only when every task its
\* dependency query returns is rendered; a failed find, validation or rendering aborts
\* the pass, with the tasks before the failed one rendered and the tasks after it neither
\* found nor rendered
C20_AbortOnFailure ==
    /\ \A i \in InStatus({"found", "checked", "rendered", "failed"}) :
          /\ \A j \in 1..(i - 1) : status[ordering[j]] = "rendered"
          /\ \A k \in DOMAIN tasks :
                tasks[k].name = ordering[i] =>
                    \A d \in Dependencies(tasks, tasks[k]) : status[d] = "rendered"
    /\ Cardinality(InStatus({"found", "checked"})) <= 1
    /\ InStatus({"failed"}) # {} <=> stage = "aborted"
    /\ stage = "aborted" =>
          \A i \in InStatus({"failed"}) :
              /\ \A j \in 1..(i - 1) : status[ordering[j]] = "rendered"
              /\ \A j \in (i + 1)..Len(ordering) : status[ordering[j]] = "pending"
    /\ stage = "finished" => \A n \in Names(tasks) : status[n] = "rendered"

\* a pass aborted by the Elastigroup: its subnets are rendered and stay so, the task that
\* depends on it was never found
C20_Witness ==
    /\ stage = "aborted"
    /\ status["nodes"] = "failed"
    /\ status["subnet-a"] = "rendered"
    /\ status["consumer"] = "pending"
    /\ OrderIndex("nodes") < Len(ordering)

----------------------------------------------------------------------------
(* Properties of single fields *)

\* the subnet ids of the live group of the task's name
LiveSubnetIDs ==
    MapOf((CHOOSE g \in Range(groups) : g.f["Name"] = e["Name"]).f, "Compute.SubnetIDs")

SameSubnets == Range(LiveSubnetIDs) = Range(MapOf(e, "Subnets"))

\* C21: with the live group's subnet ids and the desired ones the same set, Find returns
\* the desired Subnets as the actual value, the Delta does not populate Subnets and the
\* Update request carries no subnet ids; with different sets the Delta populates Subnets
\* and the Update request carries exactly the desired subnet ids
C21_SubnetsComparedAsSet ==
    /\ (a # None /\ pc \in {"Changes", "update"} /\ SameSubnets) =>
          Opt(a[1], "Subnets") = Opt(e, "Subnets")
    /\ (a # None /\ pc = "update") => (Has(changes, "Subnets") <=> ~SameSubnets)
    /\ (sent.kind = "Update" /\ Has(Cur.delta, "Subnets")) =>
          /\ Has(sent.group.f, "Compute.SubnetIDs")
          /\ sent.group.f["Compute.SubnetIDs"] = e["Subnets"]
    /\ (sent.kind = "Update" /\ ~Has(Cur.delta, "Subnets")) =>
          ~Has(sent.group.f, "Compute.SubnetIDs")

\* the live group listed the desired subnets in another order and had another maximum:
\* the Update request carries the maximum and no subnet ids
C21_Witness ==
    /\ pc = "done"
    /\ sent.kind = "Update"
    /\ LiveSubnetIDs = <<"subnet-b", "subnet-a">>
    /\ e["Subnets"] = <<"subnet-a", "subnet-b">>
    /\ a[1]["Subnets"] = e["Subnets"]
    /\ DOMAIN Cur.delta = {"MaxSize"}
    /\ ~Has(sent.group.f, "Compute.SubnetIDs")

\* the output variables aggregated under a role for the references of the desired
\* specification
RoleOutputs(role) ==
    (<<role, "security_groups">>
        :> TerraformLinks("aws_security_group", MapOf(desired, "SecurityGroups")))
    @@ (<<role, "subnet_ids">> :> TerraformLinks("aws_subnet", MapOf(desired, "Subnets")))

\* C22: RenderTerraform returns an error whenever the desired Tags hold two role-prefixed
\* keys with different suffixes, in whatever order the keys are visited; with a single
\* suffix that suffix is the role and every security-group and subnet reference is in
\* the output variables of the role; without a role tag there are no output variables;
\* and two invocations on the same Tags end alike
C22_RoleTagAggregation ==
    Emitting =>
        /\ Cardinality(roleSuffixes(MapOf(desired, "Tags"))) > 1 =>
              /\ Cur.document = None
              /\ Cur.err.phase = "terraform"
        /\ (Cur.document # None /\ roleSuffixes(MapOf(desired, "Tags")) = {}) =>
              Cur.document[1].outputs = Clear
        /\ (Cur.document # None /\ Cardinality(roleSuffixes(MapOf(desired, "Tags"))) = 1) =>
              \A role \in roleSuffixes(MapOf(desired, "Tags")) :
                  Cur.document[1].outputs = RoleOutputs(role)
        /\ (pass = 2 /\ log[1].entered = "terraform") =>
              /\ (Cur.document = None <=> log[1].document = None)
              /\ Cur.document # None => Cur.document[1].outputs = log[1].document[1].outputs

----------------------------------------------------------------------------
(* Properties of the handling of the Delta *)

\* the changed leaves of a Delta field: the populated sub-fields of a nested group, the
\* field itself otherwise
ChangedLeaves(d, f) ==
    IF f \in {"RootVolumeOpts", "AutoScalerOpts"} THEN {<<f, k>> : k \in DOMAIN d[f]}
    ELSE {<<f>>}

\* the leaf is carried by a field of the request: by the field of that origin, or, for
\* the type, size, IOPS and throughput of the root volume, by the block device mappings
Carried(request, leaf) ==
    \E p \in DOMAIN request \cap DOMAIN FieldOrigin :
        \/ FieldOrigin[p] = leaf
        \/ /\ FieldOrigin[p] = <<"RootVolumeOpts">>
           /\ leaf[1] = "RootVolumeOpts"
           /\ leaf[2] \in {"Type", "Size", "IOPS", "Throughput"}

\* the fields of the Update request update has issued, none when it issued no request
RequestFields == IF sent.kind = "Update" THEN sent.group.f ELSE Clear

\* C23: a Delta field is cleared only when it was handled. When update has gone through
\* its sections, every changed leaf of every Delta field it cleared is carried by the
\* Update request; a change of the root volume's throughput alone, or of an autoscaler
\* sub-field with Enabled unchanged, is in the request or still populated in the Delta
C23_ClearedOnlyWhenHandled ==
    Processed =>
        \A f \in DOMAIN Cur.delta \ DOMAIN changes :
            \A leaf \in ChangedLeaves(Cur.delta, f) : Carried(RequestFields, leaf)

----------------------------------------------------------------------------
(* Properties of the capacity *)

\* the fields of the live group of the task's name
LiveFields == (CHOOSE g \in Range(groups) : g.f["Name"] = e["Name"]).f

\* Minimum <= Target <= Maximum
CapacityInOrder(min, target, max) == min <= target /\ target <= max

\* C24: when the live group had Minimum <= Target <= Maximum as update listed it and the
\* desired specification has MinSize <= MaxSize, the live group still has
\* Minimum <= Target <= Maximum after update has sent its request and returned success
C24_CapacityInvariant ==
    (/\ pc = "done" /\ Cur.entered = "update" /\ Cur.updates = 1
     /\ a # None /\ Cur.target # None
     /\ CapacityInOrder(a[1]["MinSize"], Cur.target[1], a[1]["MaxSize"])
     /\ Has(e, "MinSize") /\ Has(e, "MaxSize")
     /\ e["MinSize"] <= e["MaxSize"]) =>
        CapacityInOrder(LiveFields["Capacity.Minimum"], LiveFields["Capacity.Target"],
                        LiveFields["Capacity.Maximum"])

----------------------------------------------------------------------------
(* Properties of the autoscaler settings *)

\* the settings of the autoscaler a request can remove, with their place in the request
AutoScalerSettings ==
    [Headroom |-> "Integration.Kubernetes.AutoScale.Headroom",
     Down |-> "Integration.Kubernetes.AutoScale.Down",
     Labels |-> "Integration.Kubernetes.AutoScale.Labels"]

\* C25: update never removes autoscaler settings the desired specification declares.
\* When the Delta populates AutoScalerOpts.Enabled, the Update request sets the headroom,
\* the scale-down settings or the labels to nil only if the desired AutoScalerOpts does
\* not declare that setting; a headroom is removed together with auto-config set to true
C25_DeclaredSettingsKept ==
    (UpdateSent /\ InDelta(Cur.delta, <<"AutoScalerOpts", "Enabled">>)) =>
        \A k \in DOMAIN AutoScalerSettings :
            AutoScalerSettings[k] \in sent.group.nulls =>
                ~Has(desired["AutoScalerOpts"], k)

----------------------------------------------------------------------------
(* Properties of the absence of crashes *)

\* C26: create never crashes on a validated specification. Once the pass has entered
\* create, after CheckChanges accepted the specification, create does not end in a nil
\* dereference, whether SSHKey, RootVolumeOpts, ImageID or IAMInstanceProfile is set or
\* not, the retry after a transient error included
C26_CreateNeverCrashes ==
    Cur.entered = "create" => pc # "panic"

\* C27: update never crashes when the live group has no Kubernetes integration. With
\* the actual state's AutoScalerOpts unset, the Delta populating AutoScalerOpts.Enabled
\* and the desired Down and Labels unset, update does not end in a nil dereference
C27_UpdateNeverCrashes ==
    (/\ Cur.entered = "update" /\ a # None
     /\ ~Has(a[1], "AutoScalerOpts")
     /\ InDelta(Cur.delta, <<"AutoScalerOpts", "Enabled">>)
     /\ ~Has(desired["AutoScalerOpts"], "Down")
     /\ ~Has(desired["AutoScalerOpts"], "Labels")) =>
        pc # "panic"

----------------------------------------------------------------------------
(* Properties of the created group *)

\* create has returned an error in the pass
CreateFailed(l, at) == l.entered = "create" /\ at = "failed"

\* C28: at most one group is created per create invocation. Within a pass no Create call
\* is issued, and no group added, after a Create call has succeeded; when a Create call
\* has succeeded create is over and the task's ID is the identifier of the group the
\* provider stored; when create returns an error the task's ID is as it was
C28_AtMostOneCreate ==
    [][/\ (pass' = pass /\ Cur.created) =>
             /\ log'[pass].creates = Cur.creates
             /\ Len(groups') = Len(groups)
       /\ (pass' = pass /\ ~Cur.created /\ log'[pass].created) =>
             /\ pc' = "done"
             /\ Len(groups') = Len(groups) + 1
             /\ Has(e', "ID")
             /\ e'["ID"] = groups'[Len(groups')].f["ID"]
       /\ CreateFailed(log'[pass'], pc') => Opt(e', "ID") = Opt(desired, "ID")]_vars

\* create has succeeded at its third Create call, after two transient errors: one group
\* more is stored and its identifier is the task's ID
C28_Witness ==
    /\ Cur.entered = "create"
    /\ Cur.created
    /\ Cur.creates = 3
    /\ Cur.responses = {"transient", "ok"}
    /\ pc = "done"
    /\ e["ID"] = groups[Len(groups)].f["ID"]

====
